---- MODULE Spec2Model ----
(***************************************************************************)
(* The MQTT RPC fabric of the watering system: the mediator's local RPC    *)
(* client (raspberry/mediator.py, class MqttRpcClient), the mediator's two *)
(* bridge handlers (on_local_message, on_vm_message) and the controller's  *)
(* asyncio RPC client (vm/controller.py, class AsyncMqttRpcClient).        *)
(*                                                                         *)
(* Topics are sequences of segments ("espA/pump/run" is                    *)
(* <<"espA","pump","run">>), so that split("/") and f"{a}/{b}" are        *)
(* sequence indexing and concatenation.  A JSON object is a function from  *)
(* its keys to values; a raw payload records whether json.loads accepts    *)
(* it.  uuid4().hex is a fresh token, named after who drew it and when.    *)
(***************************************************************************)
EXTENDS Naturals, Sequences, FiniteSets, TLC

\* ------------------------------------------------------------ bounds
\* Largest integer retry bound the model explores.
MaxRetries == 2
\* Messages the environment (devices, other clients) publishes in one behaviour.
MaxEnvMsgs == 2
\* How many of them, the first ones, may be messages to the bridge's own handlers
\* (on_local_message, on_vm_message, the controller) rather than RPC responses.
MaxBridgeMsgs == 1
\* Announcements the devices publish in one behaviour of the registry model.
MaxAnnounces == 2
\* Tokens of the registry's JSON text that fit one buffer, i.e. one write() to
\* the file: json.dump fills the buffer, the buffer is written when full or closed.
BufTokens == 2
\* Messages other clients publish for the controller in the controller model.
MaxCtlMsgs == 2
\* The default of RPC_MAX_RETRIES, the "3" of mediator.py line 34.
DefaultRetries == 3

\* ------------------------------------------------------------ Python values
\* None, where a string is expected.
None == "None"
\* The empty dict {}.
EmptyObj == [k \in {} |-> ""]
\* dict.get(key, default)
Get(d, key, default) == IF key \in DOMAIN d THEN d[key] ELSE default
\* d[key] = value on a dict
Put(d, key, value) == [k \in DOMAIN d \cup {key} |-> IF k = key THEN value ELSE d[k]]
\* d.pop(key, None): the dict without the key
Pop(d, key) == [k \in DOMAIN d \ {key} |-> d[k]]

\* json.dumps(obj) of a dict of serializable values, as the payload on the wire.
JsonDumps(obj) == [json |-> "obj", obj |-> obj]
\* Bytes that json.loads rejects, e.g. b"not-json".
NotJson == [json |-> "bad", obj |-> EmptyObj]
JsonLoadsRaises_mut(raw) == FALSE
\* json.loads raises on the raw payload.
JsonLoadsRaises(raw) == raw.json = "bad"
\* json.loads(raw) when it does not raise.
JsonLoads(raw) == raw.obj

\* An exception value: its class and its message, str(e) being the message.
Exc(cls, msg) == [exc |-> cls, msg |-> msg]
NoExc == Exc("None", <<>>)

\* ------------------------------------------------------------ configuration
\* mediator.py line 34: RPC_MAX_RETRIES = float(os.getenv("RPC_TIMEOUT", "3")).
\* float() yields a float whatever the environment holds.
EnvRetries == [type |-> "float", val |-> DefaultRetries]
\* The values the module global RPC_MAX_RETRIES holds when call runs: the float
\* line 34 binds, or an integer bound to it by the program embedding the module
\* (the loop of call is entered only then).
RetryBounds == {EnvRetries} \cup {[type |-> "int", val |-> n] : n \in 1..MaxRetries}

\* range(1, stop): TypeError when stop is a float, else the integers 1..stop-1.
PyRangeRaises(stop) == stop.type = "float"
PyRangeLast(stop) == stop.val - 1
\* RPC_MAX_RETRIES + 1 keeps the operand's type.
PyAddOne(v) == [type |-> v.type, val |-> v.val + 1]

\* ------------------------------------------------------------ names
\* Threads that invoke MqttRpcClient.call directly.
Callers == {"t1", "t2"}
\* The network thread of vm_mqtt, which runs on_vm_message and, inside it, call.
VmThread == "vm"
Threads == Callers \cup {VmThread}
Devices == {"espA"}
\* method_topic values, already split at "/".
Methods == {<<"pump", "run">>, <<"bucket", "get">>, <<"config", "name">>}
\* params arguments: None, a dict json.dumps accepts, one it rejects (a set inside).
ParamsChoices == {None, "{duration:7}", "{unserializable}"}
\* The calls the model makes: method_topic and params.
CallArgs == {<<<<"pump", "run">>, "{duration:7}">>,
             <<<<"config", "name">>, "{unserializable}">>}
Results == {"P1", "P2"}
DeviceErrors == {<<"E1">>}

\* uuid.uuid4().hex: tokens are unique in the process; the n-th token thread t
\* draws is named after t and n, so that behaviours differing only in the order in
\* which threads drew their tokens are the same states.
Uuid(t, n) == t \o "-" \o ToString(n)
\* A request id no call of the mediator generated.
ForeignId == "x0"

VARIABLES
    RPC_MAX_RETRIES,  \* the module global read by call
    pending,          \* MqttRpcClient.pending: req_id -> {event, response}
    rpcSubs,          \* topics the RPC client has subscribed
    uuidCount,        \* uuid4() tokens each thread of the mediator has drawn so far
    frame,            \* per calling thread: the locals of call and its position
    localLog,         \* messages the RPC client published on the local broker
    envCount,         \* messages devices and other clients have published
    handled,          \* history: requestId -> what _on_message did with each message
    inserted,         \* history: req_id -> insertions into pending
    removed,          \* history: req_id -> removals from pending
    unblocked         \* history: <<req_id, thread>> whose wait returned True

\* The mediator's bridge and the controller.
VARIABLES
    registry,         \* _device_registry: device id -> announcement
    vmInbox,          \* remote messages queued for on_vm_message, in delivery order
    vmState,          \* the vm_mqtt network thread: idle, in on_vm_message, or dead
    vmCmd,            \* the locals of the running on_vm_message
    vmLog,            \* history: what the mediator published upstream, in order
    cmdLog,           \* history: the remote commands on_vm_message has finished with
    ctlPending,       \* AsyncMqttRpcClient.pending: req_id -> the request awaiting it
    ctlUuid,          \* uuid4() tokens drawn so far in the controller
    http,             \* per HTTP request: the locals of its route and call
    ctlInbox          \* remote messages queued for the controller's _on_message

\* The registry file and the threads that save it.
VARIABLES
    tmpFile,          \* the file at REGISTRY_PATH + ".tmp"
    diskFile,         \* the file at REGISTRY_PATH
    saver,            \* per saving thread: its position in the handler and save_registry
    proc              \* the mediator process: running, stopping (signal), exited, reloaded

\* The broker sessions of the mediator's three MQTT clients.
VARIABLES
    connected,        \* per client: whether its session with the broker is up
    lostSubs          \* per client: filters it subscribed that its broker no longer holds

\* The directory of REGISTRY_PATH as os.makedirs finds it.
VARIABLES
    regDir

\* Handlers and callers that share state without a lock, step by step.
VARIABLES
    ctlNet,           \* the controller's network thread inside _on_message
    wPending,         \* rpc_wrapper.MqttRpcClient.pending
    wCall,            \* the thread inside rpc_wrapper's call
    wNet              \* rpc_wrapper's network thread inside _on_message

rpcVars == <<pending, rpcSubs, uuidCount, frame, localLog, handled, inserted, removed,
             unblocked>>
bridgeVars == <<registry, vmInbox, vmState, vmCmd, vmLog, cmdLog>>
ctlVars == <<ctlPending, ctlUuid, http, ctlInbox>>
fileVars == <<tmpFile, diskFile, saver, proc>>
connVars == <<connected, lostSubs>>
wrapVars == <<wPending, wCall, wNet>>
raceVars == <<ctlNet, wrapVars>>
vars == <<RPC_MAX_RETRIES, envCount, rpcVars, bridgeVars, ctlVars, fileVars, connVars,
          raceVars, regDir>>

\* ------------------------------------------------------------ topics
\* method_topic.split("/", 1)[0]
Base(method_topic) == method_topic[1]
\* f"{device_id}/{base}/response/{req_id}"
ResponseTopic(device_id, base, req_id) == <<device_id, base, "response", req_id>>
\* f"{device_id}/{method_topic}"
RequestTopic(device_id, method_topic) == <<device_id>> \o method_topic

\* ------------------------------------------------------------ MqttRpcClient
IdleFrame ==
    [pc |-> "idle", device_id |-> "", method_topic |-> <<>>, params |-> None,
     attempt |-> 0, req_id |-> "", last_error |-> NoExc, exit |-> "",
     retval |-> None, outcome |-> "none", raised |-> NoExc,
     ids |-> <<>>, waits |-> 0]

\* params or {}
ParamsOrEmpty(params) == IF params \in {None, "{}"} THEN "{}" ELSE params
\* json.dumps(payload) raises TypeError on a value it cannot serialize.
DumpsRaises(params) == params = "{unserializable}"

\* {"event": event, "response": None}
NewEntry == [event |-> FALSE, response |-> <<>>]
\* not resp or not resp.get("response")
ResponseMissing(pend, req_id) ==
    \/ req_id \notin DOMAIN pend
    \/ pend[req_id].response = <<>>
    \/ pend[req_id].response[1] = EmptyObj

\* Line 181: raise last_error or TimeoutError(f"RPC failed after {N} retries")
FinalError(last_error, bound) ==
    IF last_error # NoExc THEN last_error
    ELSE Exc("TimeoutError", <<"RPC failed after", ToString(bound.val), "retries">>)

\* Lines 139-140: last_error = None; for attempt in range(1, RPC_MAX_RETRIES + 1).
\* The frame of a call just entered: TypeError out of range(), the first attempt,
\* or an empty loop and line 181.
EnterFrame(bound, d, m, p) ==
    LET stop == PyAddOne(bound)
        f0 == [IdleFrame EXCEPT !.device_id = d, !.method_topic = m, !.params = p]
    IN  IF PyRangeRaises(stop)
        THEN [f0 EXCEPT !.pc = "done", !.outcome = "raise",
                !.raised = Exc("TypeError",
                               <<"'float' object cannot be interpreted as an integer">>)]
        ELSE IF PyRangeLast(stop) >= 1
        THEN [f0 EXCEPT !.pc = "attempt", !.attempt = 1]
        ELSE [f0 EXCEPT !.pc = "done", !.outcome = "raise",
                !.raised = FinalError(NoExc, bound)]

\* A thread calls rpc.call(d, m, p).
CallEnter(t, d, m, p) ==
    /\ frame[t].pc = "idle"
    /\ t = "t2" => frame["t1"].pc # "idle"   \* the threads are interchangeable
    /\ frame' = [frame EXCEPT ![t] = EnterFrame(RPC_MAX_RETRIES, d, m, p)]
    /\ UNCHANGED <<regDir, raceVars, connVars, fileVars, RPC_MAX_RETRIES, envCount, pending, rpcSubs, uuidCount, localLog,
                   handled, inserted, removed, unblocked, bridgeVars, ctlVars>>

ExceptExit_mut(exc) == "timeout"
\* Lines 167-174: except TimeoutError keeps looping; except Exception breaks.
ExceptExit(exc) == IF exc.exc = "TimeoutError" THEN "timeout" ELSE "break"

NewRequestId_mut(t, n, attempt) == "m" \o ToString(attempt)
\* Line 143: req_id = uuid.uuid4().hex, the next fresh token.
NewRequestId(t, n, attempt) == Uuid(t, n + 1)

\* Lines 142-156, one attempt up to its wait: a fresh req_id and its entry in
\* pending (under the lock), the subscription to the response topic, the publish
\* of the request.  A non-timeout exception (json.dumps) is caught at line 171:
\* last_error, break.
Attempt(t) ==
    /\ frame[t].pc = "attempt"
    /\ LET f == frame[t]
           req_id == NewRequestId(t, uuidCount[t], f.attempt)
           response_topic == ResponseTopic(f.device_id, Base(f.method_topic), req_id)
           request_topic == RequestTopic(f.device_id, f.method_topic)
           payload == [requestId |-> req_id, params |-> ParamsOrEmpty(f.params)]
       IN  /\ uuidCount' = [uuidCount EXCEPT ![t] = @ + 1]
           /\ pending' = Put(pending, req_id, NewEntry)
           /\ inserted' = Put(inserted, req_id, Get(inserted, req_id, 0) + 1)
           /\ rpcSubs' = rpcSubs \cup {response_topic}
           /\ IF DumpsRaises(f.params)
              THEN /\ frame' = [frame EXCEPT ![t] = [f EXCEPT !.req_id = req_id,
                        !.ids = Append(f.ids, req_id), !.pc = "finally",
                        !.exit = ExceptExit(Exc("TypeError", <<"not JSON serializable">>)),
                        !.last_error = Exc("TypeError", <<"not JSON serializable">>)]]
                   /\ UNCHANGED localLog
              ELSE /\ frame' = [frame EXCEPT ![t] = [f EXCEPT !.req_id = req_id,
                        !.ids = Append(f.ids, req_id), !.pc = "wait"]]
                   /\ localLog' = localLog \cup
                        {[topic |-> request_topic, payload |-> JsonDumps(payload)]}
    /\ UNCHANGED <<regDir, raceVars, connVars, fileVars, RPC_MAX_RETRIES, envCount, handled, removed, unblocked, bridgeVars,
                   ctlVars>>

ReturnValue_mut(response) == Get(response, "requestId", None)
\* Line 163: return resp["response"].get("result")
ReturnValue(response) == Get(response, "result", None)

\* History: one more removal of req_id from pending, if it was there.
Removal(req_id) ==
    IF req_id \in DOMAIN pending
    THEN Put(removed, req_id, Get(removed, req_id, 0) + 1)
    ELSE removed

\* Lines 158-163 and 176-178: event.wait(timeout) returned True; pop the entry
\* under the lock and return the result field of the stored response (the finally
\* clause then pops an id that is no longer there).
WaitSignalled(t) ==
    /\ frame[t].pc = "wait"
    /\ frame[t].req_id \in DOMAIN pending
    /\ pending[frame[t].req_id].event
    /\ LET req_id == frame[t].req_id
       IN  /\ pending' = Pop(pending, req_id)
           /\ removed' = Removal(req_id)
           /\ unblocked' = unblocked \cup {<<req_id, t>>}
           /\ frame' = [frame EXCEPT ![t] =
                IF ResponseMissing(pending, req_id)
                THEN [@ EXCEPT !.pc = "finally", !.exit = "timeout",
                        !.last_error = Exc("TimeoutError",
                                           <<"Response missing after event set">>)]
                ELSE [@ EXCEPT !.pc = "done", !.exit = "return", !.outcome = "return",
                        !.retval = ReturnValue(pending[req_id].response[1])]]
    /\ UNCHANGED <<regDir, raceVars, connVars, fileVars, RPC_MAX_RETRIES, envCount, rpcSubs, uuidCount, localLog, handled,
                   inserted, bridgeVars, ctlVars>>

\* Lines 158, 164-169: event.wait(timeout) returned False; TimeoutError is caught
\* and kept as last_error.
WaitTimeout(t) ==
    /\ frame[t].pc = "wait"
    /\ frame[t].req_id \in DOMAIN pending
    /\ ~pending[frame[t].req_id].event
    /\ LET f == frame[t]
           response_topic == ResponseTopic(f.device_id, Base(f.method_topic), f.req_id)
       IN  frame' = [frame EXCEPT ![t].pc = "finally", ![t].exit = "timeout",
                        ![t].waits = @ + 1,
                        ![t].last_error = Exc("TimeoutError",
                            <<"RPC timeout waiting for">> \o response_topic)]
    /\ UNCHANGED <<regDir, raceVars, connVars, fileVars, RPC_MAX_RETRIES, envCount, pending, rpcSubs, uuidCount, localLog,
                   handled, inserted, removed, unblocked, bridgeVars, ctlVars>>

FinallyPop_mut(pend, req_id) == pend
\* Lines 176-178: finally, under the lock.
FinallyPop(pend, req_id) == Pop(pend, req_id)

\* Lines 167-181: after an exception, the finally clause, then what the except
\* clause decided: break and raise last_error, or the next attempt of the loop.
Finally(t) ==
    /\ frame[t].pc = "finally"
    /\ pending' = FinallyPop(pending, frame[t].req_id)
    /\ removed' = IF pending' = pending THEN removed ELSE Removal(frame[t].req_id)
    /\ LET f == frame[t]
       IN  frame' = [frame EXCEPT ![t] =
             CASE f.exit = "break" ->
                    [f EXCEPT !.pc = "done", !.outcome = "raise",
                              !.raised = FinalError(f.last_error, RPC_MAX_RETRIES)]
               [] OTHER ->
                    IF f.attempt < PyRangeLast(PyAddOne(RPC_MAX_RETRIES))
                    THEN [f EXCEPT !.pc = "attempt", !.attempt = f.attempt + 1]
                    ELSE [f EXCEPT !.pc = "done", !.outcome = "raise",
                              !.raised = FinalError(f.last_error, RPC_MAX_RETRIES)]]
    /\ UNCHANGED <<regDir, raceVars, connVars, fileVars, RPC_MAX_RETRIES, envCount, rpcSubs, uuidCount, localLog, handled,
                   inserted, unblocked, bridgeVars, ctlVars>>

\* ------------------------------------------------------------ devices
\* What a device puts in the response to the request with this id: a result or
\* an error, under the id of the request.
DevicePayloads(req_id) ==
    { JsonDumps([requestId |-> req_id, result |-> v]) : v \in Results }
    \cup { JsonDumps([requestId |-> req_id, error |-> e]) : e \in DeviceErrors }

\* What any client of the local broker may publish on that response topic: also
\* an id nobody waits for, no id at all, or no JSON.
EnvPayloads(req_id) ==
    { JsonDumps([requestId |-> req_id, result |-> "P1"]) }
    \cup { JsonDumps([requestId |-> req_id, error |-> e]) : e \in DeviceErrors }
    \cup { JsonDumps([requestId |-> ForeignId, result |-> "P1"]) }
    \cup { JsonDumps([result |-> "P1"]) }
    \cup { NotJson }

\* The response topics a device can publish on: those of the requests published.
RequestIdOf(msg) == JsonLoads(msg.payload)["requestId"]
AnswerableTopics ==
    { <<msg.topic[1], msg.topic[2], "response", RequestIdOf(msg)>> : msg \in localLog }

OnMessageStores_mut(pend, payload) == Get(payload, "requestId", None) \notin {None, ""}
\* Lines 121-126: the message names a request id that is in pending.
OnMessageStores(pend, payload) ==
    LET req_id == Get(payload, "requestId", None)
    IN  req_id \notin {None, ""} /\ req_id \in DOMAIN pend

\* History: whether the creator of req_id is in event.wait for it.
Waiting(req_id) == \E t \in Threads : frame[t].pc = "wait" /\ frame[t].req_id = req_id

\* Lines 116-128: _on_message on the RPC client's network thread, for a message
\* a device published on a topic the client subscribed.  The client handles one
\* message at a time in delivery order; the step stands for the publish, the
\* delivery and the handler.
RpcOnMessage(topic, raw) ==
    /\ envCount < MaxEnvMsgs
    /\ envCount' = envCount + 1
    /\ topic \in rpcSubs
    /\ IF JsonLoadsRaises(raw)
       THEN UNCHANGED <<pending, handled>>
       ELSE LET payload == JsonLoads(raw)
                req_id == Get(payload, "requestId", None)
                stores == OnMessageStores(pending, payload)
            IN  /\ pending' = IF stores
                              THEN Put(pending, req_id,
                                       [event |-> TRUE, response |-> <<payload>>])
                              ELSE pending
                /\ handled' = Put(handled, req_id,
                       Append(Get(handled, req_id, <<>>),
                              [payload |-> payload, stored |-> req_id \in DOMAIN pending,
                               waiting |-> Waiting(req_id)]))
    /\ UNCHANGED <<regDir, raceVars, connVars, fileVars, RPC_MAX_RETRIES, rpcSubs, uuidCount, frame, localLog, inserted,
                   removed, unblocked, bridgeVars, ctlVars>>

\* ------------------------------------------------------------ brokers
\* mediator.py line 27: VM_BASE_PREFIX, by default "devices".
VM_BASE_PREFIX == "devices"

\* Whether the broker delivers a message on topic to a subscription with this
\* filter: "+" stands for exactly one segment (no filter here uses "#").
TopicMatches(filter, topic) ==
    /\ Len(filter) = Len(topic)
    /\ \A i \in 1..Len(filter) : filter[i] \in {"+", topic[i]}
Delivered(filters, topic) == \E f \in filters : TopicMatches(f, topic)

\* main, lines 326-335: the subscriptions of local_mqtt.
LocalSubscriptions ==
    { <<"devices", "announce">> }
    \cup { <<"+", b, "status">> : b \in {"bucket", "pump", "wifi"} }
    \cup { <<"+", b, "response", "+">> : b \in {"bucket", "pump", "wifi", "config"} }

\* main, lines 345-349: the subscriptions of vm_mqtt.
VmSubscriptions ==
    { <<VM_BASE_PREFIX, "+", "pump", "run">>, <<VM_BASE_PREFIX, "+", "bucket", "get">>,
      <<VM_BASE_PREFIX, "+", "wifi", "get">>, <<VM_BASE_PREFIX, "+", "pump", "get">>,
      <<VM_BASE_PREFIX, "+", "config", "name">> }

\* controller.py lines 53-55: the response topic of a controller call.
CtlResponseTopic(device_id, method, req_id) ==
    <<"devices", device_id, Base(method), "response", req_id>>
\* The topics the controller's client has subscribed: one per call made.
CtlSubs ==
    { CtlResponseTopic(http[h].device_id, http[h].method, http[h].req_id) :
        h \in { x \in DOMAIN http : http[x].pc # "idle" } }

\* A bag of messages with one more copy of msg.
BagAdd(bag, msg) == Put(bag, msg, Get(bag, msg, 0) + 1)

\* The remote broker queues a published message for each client subscribed to it.
VmQueued(queue, topic, raw) ==
    IF Delivered(VmSubscriptions, topic)
    THEN Append(queue, [topic |-> topic, payload |-> raw]) ELSE queue
CtlQueued(queue, subs, topic, raw) ==
    IF topic \in subs THEN Append(queue, [topic |-> topic, payload |-> raw]) ELSE queue

\* Lines 304-308: safe_publish_vm(topic, payload), by the handler named.
SafePublishVm(topic, raw, by) ==
    /\ vmLog' = BagAdd(vmLog, [topic |-> topic, payload |-> raw, by |-> by])
    /\ ctlInbox' = CtlQueued(ctlInbox, CtlSubs, topic, raw)

\* A JSON document that is not an object: a list, a number, a string, null.
NonObject == [json |-> "nonobj", obj |-> EmptyObj]
IsObject(raw) == raw.json = "obj"

\* ------------------------------------------------------------ registry file
\* The JSON text of the registry as a sequence of tokens: "{", one entry per
\* device, "}".  A hole is the run of NUL bytes a write beyond the end leaves.
Tok(kind, key, val) == [tok |-> kind, key |-> key, val |-> val]
TokOpen == Tok("{", "", EmptyObj)
TokClose == Tok("}", "", EmptyObj)
Hole == Tok("hole", "", EmptyObj)

\* Line 71: json.dump(_device_registry, f, indent=2, ensure_ascii=False)
RECURSIVE DumpEntries(_, _)
DumpEntries(reg, keys) ==
    IF keys = {} THEN <<>>
    ELSE LET k == CHOOSE x \in keys : TRUE
         IN  <<Tok("entry", k, reg[k])>> \o DumpEntries(reg, keys \ {k})
JsonDump(reg) == <<TokOpen>> \o DumpEntries(reg, DOMAIN reg) \o <<TokClose>>

\* The text of a JSON document that is no object, e.g. [] or 7.
NonObjectDoc == <<Tok("nonobj", "", EmptyObj)>>

\* Line 55: json.load(f) raises unless the text is one complete JSON document.
JsonLoadRaises(data) ==
    /\ data # NonObjectDoc
    /\ \/ Len(data) < 2
       \/ data[1] # TokOpen
       \/ data[Len(data)] # TokClose
       \/ \E i \in 2..(Len(data) - 1) : data[i].tok # "entry"
\* json.load(f) of a complete document: the dict of its entries, the last entry
\* of a key winning.
JsonLoad(data) ==
    LET idx == 2..(Len(data) - 1)
        keys == { data[i].key : i \in idx }
        last(k) == CHOOSE i \in idx : data[i].key = k /\ \A j \in idx : data[j].key = k => j <= i
    IN  [k \in keys |-> data[last(k)].val]

\* A path of the file system: no file, or a file and its content.
NoFile == [exists |-> FALSE, data |-> <<>>]
File(data) == [exists |-> TRUE, data |-> data]

\* Lines 53-64, load_registry after _ensure_registry_dir: a missing file, a file
\* json.load rejects and a document that is no dict give {}.
LoadRegistry(file) ==
    IF ~file.exists \/ JsonLoadRaises(file.data) THEN EmptyObj
    ELSE IF file.data = NonObjectDoc THEN EmptyObj
    ELSE JsonLoad(file.data)

\* What os.path.dirname(REGISTRY_PATH) may be to os.makedirs: a directory that
\* exists or can be made, the empty string of a path without directory part,
\* a directory that cannot be made.
RegDirs == {"ok", "empty", "denied"}
\* Lines 47-48: os.makedirs(..., exist_ok=True) raises FileNotFoundError for ""
\* and PermissionError where it may not create the directory.
EnsureDirRaises(dir) == dir # "ok"

\* The piece of the text the next write() carries, from offset off on.
ChunkAt(snap, off) ==
    SubSeq(snap, off + 1, IF off + BufTokens < Len(snap) THEN off + BufTokens ELSE Len(snap))
\* write() of a chunk at an offset of a file: a write beyond the end leaves a hole.
WriteAt(data, off, chunk) ==
    LET end == IF Len(data) > off + Len(chunk) THEN Len(data) ELSE off + Len(chunk)
    IN  [i \in 1..end |-> IF i > off /\ i <= off + Len(chunk) THEN chunk[i - off]
                          ELSE IF i <= Len(data) THEN data[i] ELSE Hole]
\* Lines 70-71 with nobody else writing: every chunk in turn into the emptied file.
RECURSIVE WriteAll(_, _, _)
WriteAll(data, snap, off) ==
    IF off >= Len(snap) THEN data
    ELSE WriteAll(WriteAt(data, off, ChunkAt(snap, off)), snap, off + Len(ChunkAt(snap, off)))
\* Lines 66-73: REGISTRY_PATH after a save_registry no other save overlaps.
SavedFile(reg) == File(WriteAll(<<>>, JsonDump(reg), 0))

\* ------------------------------------------------------------ on_local_message
IsStatusTopic_mut(topic) ==
    /\ Len(topic) >= 4
    /\ topic[Len(topic)] = "status"
    /\ topic[Len(topic) - 1] \in {"bucket", "pump", "wifi"}
\* topic.endswith("/bucket/status") or ... "/pump/status" or ... "/wifi/status"
IsStatusTopic(topic) ==
    /\ Len(topic) >= 3
    /\ topic[Len(topic)] = "status"
    /\ topic[Len(topic) - 1] \in {"bucket", "pump", "wifi"}

\* Line 250: the topic is <device_id>/<base>/response/<requestId>.
IsLocalResponseTopic(parts) ==
    /\ Len(parts) >= 4
    /\ parts[2] \in {"bucket", "pump", "wifi", "config"}
    /\ parts[3] = "response"

VmTopic_mut(topic) == topic
\* Line 251: vm_topic = f"{VM_BASE_PREFIX}/{topic}"
VmTopic(topic) == <<VM_BASE_PREFIX>> \o topic

\* JSON numbers, written "#n" to tell the number 5 from the string "5".
JsonNumbers == {"#0", "#5"}
\* Line 227: dev_id = data.get("id")
DevId(raw) == Get(JsonLoads(raw), "id", None)
Truthy_mut(v) == TRUE
\* Line 228: `if dev_id:`; None, "" and 0 are falsy.
Truthy(v) == v \notin {None, "", "#0"}

\* Lines 226-228: the payload parses to an object with a truthy id.
HasId(raw) == IsObject(raw) /\ Truthy(DevId(raw))

Announced_mut(reg, raw) ==
    IF HasId(raw) THEN Put(EmptyObj, DevId(raw), JsonLoads(raw)) ELSE reg
\* Lines 225-235: the registry after an announce; every exception is caught.
Announced(reg, raw) ==
    IF IsObject(raw) /\ Truthy(DevId(raw))
    THEN Put(reg, DevId(raw), JsonLoads(raw))
    ELSE reg

\* Lines 220-253: the body of on_local_message.
LocalHandler(topic, raw) ==
    /\ IF topic = <<"devices", "announce">>
       THEN /\ registry' = Announced(registry, raw)
            /\ IF HasId(raw)
               THEN tmpFile' = NoFile /\ diskFile' = SavedFile(registry')
               ELSE UNCHANGED <<tmpFile, diskFile>>
            /\ SafePublishVm(<<"devices", "announce">>, raw, "local")
       ELSE IF IsStatusTopic(topic)
       THEN /\ SafePublishVm(topic, raw, "local")
            /\ UNCHANGED <<registry, tmpFile, diskFile>>
       ELSE IF IsLocalResponseTopic(topic)
       THEN /\ SafePublishVm(VmTopic(topic), raw, "local")
            /\ UNCHANGED <<registry, tmpFile, diskFile>>
       ELSE UNCHANGED <<registry, vmLog, ctlInbox, tmpFile, diskFile>>
    /\ UNCHANGED <<regDir, raceVars, connVars, saver, proc, RPC_MAX_RETRIES, rpcVars, vmInbox, vmState, vmCmd, cmdLog,
                   ctlPending, ctlUuid, http>>

\* Lines 220-253: on_local_message on the network thread of local_mqtt, for a
\* message a device published on a topic local_mqtt subscribed.
OnLocalMessage(topic, raw) ==
    /\ envCount < MaxBridgeMsgs
    /\ envCount' = envCount + 1
    /\ Delivered(LocalSubscriptions, topic)
    /\ LocalHandler(topic, raw)

\* What devices publish on the local broker besides RPC responses.
AnnouncePayloads ==
    { JsonDumps([id |-> "espD", fw |-> "0.9"]), JsonDumps([fw |-> "0.9"]), NotJson }
StatusPayloads == { JsonDumps([level |-> "42"]) }
LocalEnvMessages ==
    { <<<<"devices", "announce">>, raw>> : raw \in AnnouncePayloads }
    \cup { <<<<d, "bucket", "status">>, raw>> : d \in Devices, raw \in StatusPayloads }
    \cup { <<topic, JsonDumps([requestId |-> topic[4], result |-> "P1"])>> :
             topic \in AnswerableTopics
                       \cup { <<d, "pump", "response", ForeignId>> : d \in Devices } }

\* Messages published on the local broker when the handler is taken alone.
MaxLocalMsgs == 2
\* Announces with an id that is a string, a number, zero, empty, or missing.
LocalAnnounces ==
    AnnouncePayloads
    \cup { JsonDumps([id |-> i, fw |-> "0.9"]) : i \in {"espA", "#5", "#0", ""} }
    \cup { NonObject }
\* Every kind of topic a client of the local broker may publish on: the ones
\* local_mqtt subscribed and others the broker does not deliver to it.
LocalMessages ==
    { <<<<"devices", "announce">>, raw>> : raw \in LocalAnnounces }
    \cup { <<<<d, b, "status">>, raw>> :
              d \in Devices, b \in {"bucket", "pump"}, raw \in StatusPayloads }
    \cup { <<<<d, b, "response", ForeignId>>, JsonDumps([requestId |-> ForeignId, result |-> "P1"])>> :
              d \in Devices, b \in {"bucket", "pump", "wifi", "config"} }
    \cup { <<<<"espA", "pump", "response", "">>, NotJson>> }
    \cup { <<topic, JsonDumps([requestId |-> ForeignId, result |-> "P1"])>> :
              topic \in { <<"espA", "bucket", "get">>, <<"espA", "temp", "response", ForeignId>>,
                          <<"espA", "pump", "response", ForeignId, "x">>,
                          <<"espA", "pump", "response">>, <<"devices", "announce", "x">> } }

\* A client publishes on the local broker; the broker hands the message to
\* on_local_message when local_mqtt subscribed its topic (lines 326-335).
LocalPublish(topic, raw) ==
    /\ envCount < MaxLocalMsgs
    /\ envCount' = envCount + 1
    /\ IF Delivered(LocalSubscriptions, topic)
       THEN LocalHandler(topic, raw)
       ELSE UNCHANGED <<regDir, raceVars, connVars, fileVars, RPC_MAX_RETRIES, rpcVars, bridgeVars,
                        ctlVars>>

\* ------------------------------------------------------------ save_registry, step by step
\* The threads that run save_registry: the network thread of local_mqtt inside
\* on_local_message (line 230), the main thread inside handle_sig (line 362).
Savers == {"announce", "signal"}
\* The locals of a saving thread: the announce being handled, the open file (it
\* follows its file when that is renamed), the offset, the text being written;
\* as history, the registry when the save began and the device ids the registry
\* held when the signal handler was entered.
IdleSaver == [pc |-> "idle", raw |-> NotJson, fd |-> "none", off |-> 0, snap |-> <<>>,
              reg |-> EmptyObj, known |-> {}]
\* The threads of the process run until os._exit.
Alive == proc \in {"running", "stopping"}

\* The announcements of the registry model: two versions of one device, another
\* device, an announcement without id, bytes that are no JSON.
RegAnnouncePayloads ==
    { JsonDumps([id |-> "espD", fw |-> "0.9"]), JsonDumps([id |-> "espD", fw |-> "1.0"]),
      JsonDumps([id |-> "espE", fw |-> "0.9"]), JsonDumps([fw |-> "0.9"]), NotJson }

\* What is unchanged by every step of the registry model.
RegUnchanged == UNCHANGED <<regDir, raceVars, connVars, RPC_MAX_RETRIES, rpcVars, vmInbox, vmState, vmCmd, cmdLog,
                            ctlPending, ctlUuid, http>>

\* Lines 224-229: on_local_message takes an announce; with an id it upserts the
\* registry and enters save_registry, else it goes on to forward.
AnnounceBegin(raw) ==
    /\ Alive
    /\ saver["announce"].pc = "idle"
    /\ envCount < MaxAnnounces
    /\ envCount' = envCount + 1
    /\ registry' = Announced(registry, raw)
    /\ saver' = [saver EXCEPT !["announce"] =
                    [IdleSaver EXCEPT !.raw = raw,
                                      !.pc = IF HasId(raw) THEN "open" ELSE "forward"]]
    /\ UNCHANGED <<tmpFile, diskFile, proc, vmLog, ctlInbox>>
    /\ RegUnchanged

\* Line 70: open(tmp_path, "w") creates the file or empties the one that is there.
SaveOpen(w) ==
    /\ Alive
    /\ saver[w].pc = "open"
    /\ tmpFile' = File(<<>>)
    /\ saver' = [saver EXCEPT ![w].pc = "write", ![w].fd = "tmp", ![w].off = 0,
                              ![w].snap = JsonDump(registry), ![w].reg = registry]
    /\ UNCHANGED <<diskFile, proc, registry, envCount, vmLog, ctlInbox>>
    /\ RegUnchanged

\* Lines 70-71: one write() of the next chunk at the thread's offset of its open
\* file, wherever that file now is; after the last chunk the file is closed.
SaveWrite(w) ==
    /\ Alive
    /\ saver[w].pc = "write"
    /\ LET f == saver[w]
           chunk == ChunkAt(f.snap, f.off)
           off == f.off + Len(chunk)
       IN  /\ tmpFile' = IF f.fd = "tmp" THEN File(WriteAt(tmpFile.data, f.off, chunk))
                         ELSE tmpFile
           /\ diskFile' = IF f.fd = "disk" THEN File(WriteAt(diskFile.data, f.off, chunk))
                          ELSE diskFile
           /\ saver' = [saver EXCEPT ![w].off = off,
                                     ![w].pc = IF off >= Len(f.snap) THEN "replace" ELSE "write"]
    /\ UNCHANGED <<proc, registry, envCount, vmLog, ctlInbox>>
    /\ RegUnchanged

\* The open files of the other threads after a rename of tmp onto REGISTRY_PATH.
Renamed(fd) == IF fd = "tmp" THEN "disk" ELSE IF fd = "disk" THEN "gone" ELSE fd

\* Lines 72-75: os.replace(tmp_path, REGISTRY_PATH); FileNotFoundError, when
\* another save has renamed the file away, is caught and logged.
SaveReplace(w) ==
    /\ Alive
    /\ saver[w].pc = "replace"
    /\ IF tmpFile.exists
       THEN /\ diskFile' = tmpFile
            /\ tmpFile' = NoFile
            /\ saver' = [x \in Savers |->
                            IF x = w THEN [saver[x] EXCEPT !.pc = "saved", !.fd = "none"]
                            ELSE [saver[x] EXCEPT !.fd = Renamed(@)]]
       ELSE /\ saver' = [saver EXCEPT ![w].pc = "failed", ![w].fd = "none"]
            /\ UNCHANGED <<tmpFile, diskFile>>
    /\ UNCHANGED <<proc, registry, envCount, vmLog, ctlInbox>>
    /\ RegUnchanged

\* Lines 70-75: open, a write or os.replace fails with an OSError (no space, no
\* permission); the with statement closes the file, the except clause logs.
SaveFail(w) ==
    /\ Alive
    /\ saver[w].pc \in {"open", "write", "replace"}
    /\ saver' = [saver EXCEPT ![w].pc = "failed", ![w].fd = "none"]
    /\ UNCHANGED <<tmpFile, diskFile, proc, registry, envCount, vmLog, ctlInbox>>
    /\ RegUnchanged

\* Lines 236-238: forward the raw announce upstream and return.
AnnounceForward ==
    /\ Alive
    /\ saver["announce"].pc \in {"saved", "failed", "forward"}
    /\ SafePublishVm(<<"devices", "announce">>, saver["announce"].raw, "local")
    /\ saver' = [saver EXCEPT !["announce"].pc = "idle"]
    /\ UNCHANGED <<tmpFile, diskFile, proc, registry, envCount>>
    /\ RegUnchanged

\* Lines 360-362: SIGTERM or SIGINT; handle_sig runs in the main thread and
\* enters save_registry while the other threads go on.
Signal ==
    /\ proc = "running"
    /\ proc' = "stopping"
    /\ saver' = [saver EXCEPT !["signal"].pc = "open", !["signal"].known = DOMAIN registry]
    /\ UNCHANGED <<tmpFile, diskFile, registry, envCount, vmLog, ctlInbox>>
    /\ RegUnchanged

\* Line 364: os._exit(0) ends every thread where it stands.
SigExit ==
    /\ proc = "stopping"
    /\ saver["signal"].pc \in {"saved", "failed"}
    /\ proc' = "exited"
    /\ UNCHANGED <<tmpFile, diskFile, saver, registry, envCount, vmLog, ctlInbox>>
    /\ RegUnchanged

\* The files main may find at REGISTRY_PATH: none, a text that is no JSON, a
\* JSON document that is no object, a registry saved earlier.
StartFiles ==
    { NoFile, File(<<TokOpen>>), File(NonObjectDoc),
      SavedFile([k \in {"espE"} |-> [id |-> "espE", fw |-> "0.9"]]) }

\* Line 316 with lines 50-64: main calls load_registry; an exception of
\* _ensure_registry_dir, raised before the try, leaves load_registry and main.
MainLoad ==
    /\ proc = "starting"
    /\ IF EnsureDirRaises(regDir)
       THEN proc' = "crashed" /\ UNCHANGED registry
       ELSE proc' = "running" /\ registry' = LoadRegistry(diskFile)
    /\ UNCHANGED <<tmpFile, diskFile, saver, envCount, vmLog, ctlInbox>>
    /\ RegUnchanged

\* Line 316: the next start of the mediator loads the registry from the file.
LoadOnStart ==
    /\ proc = "exited"
    /\ proc' = "reloaded"
    /\ registry' = LoadRegistry(diskFile)
    /\ UNCHANGED <<tmpFile, diskFile, saver, envCount, vmLog, ctlInbox>>
    /\ RegUnchanged

\* ------------------------------------------------------------ on_vm_message
IdleCmd == [topic |-> <<>>, req_id |-> "", device_id |-> "", base |-> ""]

\* Line 266: payload.get("params", {}) or {}
CmdParams(payload) == ParamsOrEmpty(Get(payload, "params", "{}"))

\* Line 301: f"{VM_BASE_PREFIX}/{device_id}/{base}/response/{req_id or 'noid'}"
VmRespTopic(device_id, base, req_id) ==
    <<VM_BASE_PREFIX, device_id, base, "response",
      IF req_id \in {"", None} THEN "noid" ELSE req_id>>

VmResp_mut(req_id, f) ==
    IF f.outcome = "return"
    THEN [requestId |-> f.req_id, result |-> f.retval]
    ELSE [requestId |-> f.req_id, error |-> f.raised.msg]
\* Lines 294, 297: the envelope answering the command, from how rpc.call ended.
VmResp(req_id, f) ==
    IF f.outcome = "return"
    THEN [requestId |-> req_id, result |-> f.retval]
    ELSE [requestId |-> req_id, error |-> f.raised.msg]

\* Line 273: list(_device_registry.values())
RegistryList(reg) == { reg[k] : k \in DOMAIN reg }

\* Lines 256-293: on_vm_message up to the call of rpc.call, for the message at the
\* head of the queue of vm_mqtt.  A payload that is JSON but no object makes
\* payload.get raise AttributeError outside any try: the exception leaves the
\* handler and ends the network thread.
OnVmMessage ==
    /\ vmState = "idle"
    /\ vmInbox # <<>>
    /\ vmInbox' = Tail(vmInbox)
    /\ LET msg == Head(vmInbox)
           topic == msg.topic
           payload == JsonLoads(msg.payload)
           req_id == Get(payload, "requestId", "")
           done(kind) == Append(cmdLog, [topic |-> topic, req_id |-> req_id, kind |-> kind,
                                         ids |-> <<>>, resp |-> EmptyObj,
                                         params |-> None])
       IN  IF JsonLoadsRaises(msg.payload)
           THEN /\ cmdLog' = done("nonjson")
                /\ UNCHANGED <<vmState, vmCmd, frame, vmLog, ctlInbox>>
           ELSE IF ~IsObject(msg.payload)
           THEN /\ vmState' = "dead"
                /\ cmdLog' = done("escaped")
                /\ UNCHANGED <<vmCmd, frame, vmLog, ctlInbox>>
           ELSE IF topic = <<VM_BASE_PREFIX, "mediator", "devices", "get">>
           THEN /\ SafePublishVm(<<VM_BASE_PREFIX, "mediator", "devices", "response", req_id>>,
                                 JsonDumps([requestId |-> req_id,
                                            result |-> RegistryList(registry)]), "vm")
                /\ cmdLog' = done("registry")
                /\ UNCHANGED <<vmState, vmCmd, frame>>
           ELSE IF Len(topic) < 4 \/ topic[1] # VM_BASE_PREFIX
           THEN /\ cmdLog' = done("badtopic")
                /\ UNCHANGED <<vmState, vmCmd, frame, vmLog, ctlInbox>>
           ELSE /\ vmState' = "busy"
                /\ vmCmd' = [topic |-> topic, req_id |-> req_id, device_id |-> topic[2],
                             base |-> topic[3]]
                /\ frame' = [frame EXCEPT ![VmThread] =
                        EnterFrame(RPC_MAX_RETRIES, topic[2], SubSeq(topic, 3, Len(topic)),
                                   CmdParams(payload))]
                /\ UNCHANGED <<cmdLog, vmLog, ctlInbox>>
    /\ UNCHANGED <<regDir, raceVars, connVars, fileVars, RPC_MAX_RETRIES, envCount, pending, rpcSubs, uuidCount, localLog,
                   handled, inserted, removed, unblocked, registry, ctlPending, ctlUuid,
                   http>>

\* Lines 294-302: rpc.call has returned or raised; publish the envelope upstream
\* on the response topic of the command and leave the handler.
VmRespond ==
    /\ vmState = "busy"
    /\ frame[VmThread].pc = "done"
    /\ LET f == frame[VmThread]
           resp == VmResp(vmCmd.req_id, f)
           vm_resp_topic == VmRespTopic(vmCmd.device_id, vmCmd.base, vmCmd.req_id)
       IN  /\ SafePublishVm(vm_resp_topic, JsonDumps(resp), "vm")
           /\ cmdLog' = Append(cmdLog, [topic |-> vmCmd.topic, req_id |-> vmCmd.req_id,
                                        kind |-> "answered", ids |-> f.ids,
                                        resp |-> resp, params |-> f.params])
    /\ vmState' = "idle"
    /\ vmCmd' = IdleCmd
    /\ frame' = [frame EXCEPT ![VmThread] = IdleFrame]
    /\ UNCHANGED <<regDir, raceVars, connVars, fileVars, RPC_MAX_RETRIES, envCount, pending, rpcSubs, uuidCount, localLog,
                   handled, inserted, removed, unblocked, registry, vmInbox, ctlPending,
                   ctlUuid, http>>

\* ------------------------------------------------------------ controller
\* HTTP requests in flight at the controller.
Requests == {"h1"}
\* The routes, lines 78-96: device, RPC method and params of the call each makes.
\* Routes are those the bridge is driven with, AllRoutes every route there is.
Routes ==
    { [device_id |-> d, method |-> <<"pump", "run">>, params |-> "{duration:7}"] :
        d \in Devices }
    \cup { [device_id |-> "mediator", method |-> <<"devices", "get">>, params |-> None] }
AllRoutes ==
    Routes \cup { [device_id |-> d, method |-> <<b, "get">>, params |-> None] :
                    d \in Devices, b \in {"bucket", "wifi"} }
\* HTTP requests in flight at the controller when it is taken alone.
CtlRequests == {"h1", "h2"}

RouteBody_mut(device_id, method, result) ==
    IF method = <<"devices", "get">> THEN [devices |-> result]
    ELSE [device |-> device_id, result |-> result]
\* Lines 81, 86, 91, 96: the JSON body each route returns.
RouteBody(device_id, method, result) ==
    CASE method = <<"pump", "run">> -> [device |-> device_id, result |-> result]
      [] method = <<"bucket", "get">> -> [device |-> device_id, bucket |-> result]
      [] method = <<"wifi", "get">> -> [device |-> device_id, wifi |-> result]
      [] OTHER -> [devices |-> result]

\* uuid.uuid4().hex: the n-th token drawn in the controller process.
CtlUuid(n) == "c" \o ToString(n)

\* published is history: the messages the call has published.
IdleHttp ==
    [pc |-> "idle", device_id |-> "", method |-> <<>>, req_id |-> "", fut |-> "none",
     response |-> EmptyObj, status |-> 0, result |-> None, body |-> EmptyObj,
     published |-> <<>>]

\* controller.py lines 47-61: call up to its await: a fresh req_id, its future in
\* pending, the subscription to the response topic, the publish of the request.
CtlCall(h, route) ==
    /\ http[h].pc = "idle"
    /\ h = "h2" => http["h1"].pc # "idle"   \* the requests are interchangeable
    /\ LET req_id == CtlUuid(ctlUuid + 1)
           topic == <<"devices", route.device_id>> \o route.method
           payload == [requestId |-> req_id, params |-> ParamsOrEmpty(route.params)]
       IN  /\ ctlUuid' = ctlUuid + 1
           /\ ctlPending' = Put(ctlPending, req_id, h)
           /\ http' = [http EXCEPT ![h] = [IdleHttp EXCEPT !.pc = "await",
                         !.device_id = route.device_id, !.method = route.method,
                         !.req_id = req_id, !.fut = "pending",
                         !.published = <<[topic |-> topic, payload |-> JsonDumps(payload)]>>]]
           /\ vmInbox' = VmQueued(vmInbox, topic, JsonDumps(payload))
    /\ UNCHANGED <<regDir, raceVars, connVars, fileVars, RPC_MAX_RETRIES, envCount, rpcVars, registry, vmState, vmCmd, vmLog,
                   cmdLog, ctlInbox>>

\* controller.py lines 42-45: the message names a request id that is in pending.
CtlMatches(pend, raw) ==
    /\ IsObject(raw)
    /\ Get(JsonLoads(raw), "requestId", None) \notin {None, ""}
    /\ Get(JsonLoads(raw), "requestId", None) \in DOMAIN pend

\* controller.py lines 35-45: _on_message on the controller's network thread, for
\* the message at the head of its queue: pop the future and resolve it, no step
\* of the event loop thread falling between its statements.
CtlOnMessage ==
    /\ ctlNet.pc = "idle"
    /\ ctlInbox # <<>>
    /\ ctlInbox' = Tail(ctlInbox)
    /\ LET raw == Head(ctlInbox).payload
           req_id == Get(JsonLoads(raw), "requestId", None)
       IN  IF CtlMatches(ctlPending, raw)
           THEN /\ ctlPending' = Pop(ctlPending, req_id)
                /\ http' = [http EXCEPT ![ctlPending[req_id]] =
                              IF @.fut = "pending"
                              THEN [@ EXCEPT !.fut = "done", !.response = JsonLoads(raw)]
                              ELSE @]
           ELSE UNCHANGED <<ctlPending, http>>
    /\ UNCHANGED <<regDir, raceVars, connVars, fileVars, RPC_MAX_RETRIES, envCount, rpcVars, bridgeVars, ctlUuid>>

\* The locals of the controller's _on_message between its steps.
IdleNet == [pc |-> "idle", req_id |-> "", payload |-> EmptyObj, h |-> "", error |-> "none"]

\* controller.py lines 36-42, the first step of _on_message when the event loop
\* thread may run between its statements: parse, read requestId, test
\* `req_id and req_id in self.pending`.
CtlMsgCheck ==
    /\ ctlNet.pc = "idle"
    /\ ctlInbox # <<>>
    /\ ctlInbox' = Tail(ctlInbox)
    /\ LET raw == Head(ctlInbox).payload
       IN  ctlNet' = IF CtlMatches(ctlPending, raw)
                     THEN [IdleNet EXCEPT !.pc = "pop", !.payload = JsonLoads(raw),
                                          !.req_id = JsonLoads(raw)["requestId"]]
                     ELSE ctlNet
    /\ UNCHANGED <<regDir, wrapVars, connVars, fileVars, RPC_MAX_RETRIES, envCount, rpcVars, bridgeVars,
                   ctlPending, ctlUuid, http>>

\* controller.py line 43: fut = self.pending.pop(req_id); KeyError, when call has
\* removed the id since the test, leaves the handler and ends the network thread.
CtlMsgPop ==
    /\ ctlNet.pc = "pop"
    /\ IF ctlNet.req_id \in DOMAIN ctlPending
       THEN /\ ctlPending' = Pop(ctlPending, ctlNet.req_id)
            /\ ctlNet' = [ctlNet EXCEPT !.pc = "done?", !.h = ctlPending[ctlNet.req_id]]
       ELSE /\ ctlNet' = [ctlNet EXCEPT !.pc = "dead", !.error = "KeyError"]
            /\ UNCHANGED ctlPending
    /\ UNCHANGED <<regDir, wrapVars, connVars, fileVars, RPC_MAX_RETRIES, envCount, rpcVars, bridgeVars,
                   ctlUuid, http, ctlInbox>>

\* controller.py line 44: if not fut.done()
CtlMsgDone ==
    /\ ctlNet.pc = "done?"
    /\ ctlNet' = IF http[ctlNet.h].fut = "pending" THEN [ctlNet EXCEPT !.pc = "set"]
                 ELSE IdleNet
    /\ UNCHANGED <<regDir, wrapVars, connVars, fileVars, RPC_MAX_RETRIES, envCount, rpcVars, bridgeVars,
                   ctlVars>>

\* controller.py line 45: fut.set_result(payload); InvalidStateError when the
\* future was cancelled since the test.
CtlMsgSet ==
    /\ ctlNet.pc = "set"
    /\ IF http[ctlNet.h].fut = "pending"
       THEN /\ http' = [http EXCEPT ![ctlNet.h].fut = "done",
                                    ![ctlNet.h].response = ctlNet.payload]
            /\ ctlNet' = IdleNet
       ELSE /\ ctlNet' = [ctlNet EXCEPT !.pc = "dead", !.error = "InvalidStateError"]
            /\ UNCHANGED http
    /\ UNCHANGED <<regDir, wrapVars, connVars, fileVars, RPC_MAX_RETRIES, envCount, rpcVars, bridgeVars,
                   ctlPending, ctlUuid, ctlInbox>>

\* controller.py lines 64-65 and the route's return: the future is resolved;
\* call returns response.get("result") and the route answers 200.
CtlReturn(h) ==
    /\ http[h].pc = "await"
    /\ http[h].fut = "done"
    /\ http' = [http EXCEPT ![h].pc = "done", ![h].status = 200,
                            ![h].result = Get(http[h].response, "result", None),
                            ![h].body = RouteBody(http[h].device_id, http[h].method,
                                                  Get(http[h].response, "result", None))]
    /\ UNCHANGED <<regDir, raceVars, connVars, fileVars, RPC_MAX_RETRIES, envCount, rpcVars, bridgeVars, ctlPending, ctlUuid,
                   ctlInbox>>

TimeoutPop_mut(pend, req_id) == pend
\* controller.py line 67: self.pending.pop(req_id, None)
TimeoutPop(pend, req_id) == Pop(pend, req_id)

\* controller.py lines 66-68: wait_for timed out and cancelled the future; the id
\* is popped and the route answers 504.
CtlTimeout(h) ==
    /\ http[h].pc = "await"
    /\ http[h].fut = "pending"
    /\ ctlPending' = TimeoutPop(ctlPending, http[h].req_id)
    /\ http' = [http EXCEPT ![h].pc = "done", ![h].fut = "cancelled", ![h].status = 504]
    /\ UNCHANGED <<regDir, raceVars, connVars, fileVars, RPC_MAX_RETRIES, envCount, rpcVars, bridgeVars, ctlUuid, ctlInbox>>

\* The request's task is cancelled while call awaits wait_for (line 64), as when
\* the server drops the request of a client that went away: wait_for cancels the
\* future and CancelledError leaves call; it is no asyncio.TimeoutError, so
\* line 67 does not run and the id stays in pending.
CtlAbort(h) ==
    /\ http[h].pc = "await"
    /\ http' = [http EXCEPT ![h].pc = "aborted", ![h].fut = "cancelled"]
    /\ UNCHANGED <<regDir, raceVars, connVars, fileVars, RPC_MAX_RETRIES, envCount, rpcVars, bridgeVars, ctlPending, ctlUuid,
                   ctlInbox>>

\* What the mediator or another client may publish on a response topic of the
\* controller: a result or an error under the id of the topic, or under another id.
CtlAnswers(topic) ==
    { JsonDumps([requestId |-> topic[5], result |-> "P1"]),
      JsonDumps([requestId |-> topic[5], error |-> "E1"]),
      JsonDumps([requestId |-> ForeignId, result |-> "P2"]) }

\* A response is published upstream and queued for the controller's client.
UpstreamAnswer(topic, raw) ==
    /\ envCount < MaxCtlMsgs
    /\ envCount' = envCount + 1
    /\ topic \in CtlSubs
    /\ SafePublishVm(topic, raw, "vm")
    /\ UNCHANGED <<regDir, raceVars, connVars, fileVars, RPC_MAX_RETRIES, rpcVars, registry, vmInbox, vmState, vmCmd, cmdLog,
                   ctlPending, ctlUuid, http>>

\* ------------------------------------------------------------ rpc_wrapper.MqttRpcClient
\* The single-attempt client of rpc_wrapper.py: call on the caller's thread and
\* _on_message on the network thread share pending without a lock, so each
\* statement that reads or writes pending is a step of its own.

\* Calls the caller makes one after the other.
MaxWrapCalls == 2
\* Messages delivered to the client.
MaxWrapMsgs == 2

\* rpc_wrapper.py line 30: str(uuid.uuid4()), the n-th token drawn.
WrapUuid(n) == "w" \o ToString(n)

\* rpc_wrapper.py line 32: {"event": event, "response": None}; response is <<>>
\* for None and <<payload>> once stored.
WrapEntry == [event |-> FALSE, response |-> <<>>]

\* The caller outside call; outcome, retval, exc, resp and published record how
\* the last call ended and what it published.
IdleWrapCall ==
    [pc |-> "idle", req_id |-> "", n |-> 0, outcome |-> "none", retval |-> None,
     exc |-> "none", resp |-> <<>>, published |-> <<>>]

\* The network thread outside _on_message; caught and escaped record the
\* exceptions raised inside it, seen counts the messages delivered.
IdleWrapNet ==
    [pc |-> "idle", req_id |-> None, payload |-> EmptyObj, caught |-> {},
     escaped |-> "none", seen |-> 0]

\* rpc_wrapper.py lines 30-39: call up to event.wait.
WrapCall(device_id, method) ==
    /\ wCall.pc \in {"idle", "done"}
    /\ wCall.n < MaxWrapCalls
    /\ LET req_id == WrapUuid(wCall.n + 1)
           payload == [requestId |-> req_id, params |-> EmptyObj]
       IN  /\ wPending' = Put(wPending, req_id, WrapEntry)
           /\ wCall' = [IdleWrapCall EXCEPT !.pc = "wait", !.req_id = req_id,
                          !.n = wCall.n + 1,
                          !.published = <<[topic |-> <<device_id, method, "get">>,
                                           payload |-> JsonDumps(payload)]>>]
    /\ UNCHANGED <<regDir, wNet, ctlNet, connVars, fileVars, RPC_MAX_RETRIES, envCount, rpcVars,
                   bridgeVars, ctlVars>>

\* rpc_wrapper.py line 41: event.wait(timeout) returns True, the event being set.
WrapWaitTrue ==
    /\ wCall.pc = "wait"
    /\ wPending[wCall.req_id].event
    /\ wCall' = [wCall EXCEPT !.pc = "got"]
    /\ UNCHANGED <<regDir, wPending, wNet, ctlNet, connVars, fileVars, RPC_MAX_RETRIES, envCount,
                   rpcVars, bridgeVars, ctlVars>>

\* rpc_wrapper.py line 41: the timeout expires with the event not set and
\* event.wait returns False.
WrapWaitFalse ==
    /\ wCall.pc = "wait"
    /\ ~wPending[wCall.req_id].event
    /\ wCall' = [wCall EXCEPT !.pc = "timedout"]
    /\ UNCHANGED <<regDir, wPending, wNet, ctlNet, connVars, fileVars, RPC_MAX_RETRIES, envCount,
                   rpcVars, bridgeVars, ctlVars>>

\* rpc_wrapper.py lines 42-44: read the response, delete the id, return
\* resp.get("result"); None has no get.
WrapReturn ==
    /\ wCall.pc = "got"
    /\ LET resp == wPending[wCall.req_id].response
       IN  /\ wPending' = Pop(wPending, wCall.req_id)
           /\ wCall' = IF resp = <<>>
                        THEN [wCall EXCEPT !.pc = "done", !.outcome = "raise",
                                           !.exc = "AttributeError"]
                        ELSE [wCall EXCEPT !.pc = "done", !.outcome = "return",
                                           !.resp = resp,
                                           !.retval = Get(resp[1], "result", None)]
    /\ UNCHANGED <<regDir, wNet, ctlNet, connVars, fileVars, RPC_MAX_RETRIES, envCount, rpcVars,
                   bridgeVars, ctlVars>>

WrapTimeoutDel_mut(pend, req_id) == pend
\* rpc_wrapper.py line 46: del self.pending[req_id]
WrapTimeoutDel(pend, req_id) == Pop(pend, req_id)

\* rpc_wrapper.py lines 46-47: delete the id and raise TimeoutError.
WrapRaise ==
    /\ wCall.pc = "timedout"
    /\ wPending' = WrapTimeoutDel(wPending, wCall.req_id)
    /\ wCall' = [wCall EXCEPT !.pc = "done", !.outcome = "raise", !.exc = "TimeoutError"]
    /\ UNCHANGED <<regDir, wNet, ctlNet, connVars, fileVars, RPC_MAX_RETRIES, envCount, rpcVars,
                   bridgeVars, ctlVars>>

\* rpc_wrapper.py lines 23-24: `except Exception` takes every exception the
\* body raises but those deriving from BaseException alone.
WrapExcept(net, exc) ==
    IF exc \in {"KeyboardInterrupt", "SystemExit", "GeneratorExit"}
    THEN [net EXCEPT !.pc = "dead", !.escaped = exc]
    ELSE [net EXCEPT !.pc = "idle", !.caught = @ \cup {exc}]

\* What arrives on the response topics the client has subscribed to: an answer
\* or an error under the id of a call made so far, or under an unknown id, or
\* bytes that are no JSON object.
WrapAnswers ==
    { NotJson, NonObject, JsonDumps([result |-> "P1"]) }
    \cup { JsonDumps([requestId |-> WrapUuid(i), result |-> "P1"]) : i \in 1..wCall.n }
    \cup { JsonDumps([requestId |-> WrapUuid(i), error |-> "E1"]) : i \in 1..wCall.n }
    \cup { JsonDumps([requestId |-> ForeignId, result |-> "P2"]) }

\* rpc_wrapper.py lines 18-20: _on_message parses the payload, reads requestId
\* and tests `req_id in self.pending`.
WrapMsgBegin(raw) ==
    /\ wNet.pc = "idle"
    /\ wNet.seen < MaxWrapMsgs
    /\ wCall.n > 0
    /\ LET net == [wNet EXCEPT !.seen = @ + 1]
       IN  wNet' = IF JsonLoadsRaises(raw) THEN WrapExcept(net, "JSONDecodeError")
                   ELSE IF ~IsObject(raw) THEN WrapExcept(net, "AttributeError")
                   ELSE IF Get(JsonLoads(raw), "requestId", None) \in DOMAIN wPending
                        THEN [net EXCEPT !.pc = "store", !.payload = JsonLoads(raw),
                                         !.req_id = JsonLoads(raw)["requestId"]]
                        ELSE net
    /\ UNCHANGED <<regDir, wPending, wCall, ctlNet, connVars, fileVars, RPC_MAX_RETRIES, envCount,
                   rpcVars, bridgeVars, ctlVars>>

\* rpc_wrapper.py line 21: self.pending[req_id]["response"] = payload; KeyError
\* when call has deleted the id since the test.
WrapMsgStore ==
    /\ wNet.pc = "store"
    /\ IF wNet.req_id \in DOMAIN wPending
       THEN /\ wPending' = [wPending EXCEPT ![wNet.req_id].response = <<wNet.payload>>]
            /\ wNet' = [wNet EXCEPT !.pc = "set"]
       ELSE /\ wNet' = WrapExcept(wNet, "KeyError")
            /\ UNCHANGED wPending
    /\ UNCHANGED <<regDir, wCall, ctlNet, connVars, fileVars, RPC_MAX_RETRIES, envCount, rpcVars,
                   bridgeVars, ctlVars>>

\* rpc_wrapper.py line 22: self.pending[req_id]["event"].set()
WrapMsgSet ==
    /\ wNet.pc = "set"
    /\ IF wNet.req_id \in DOMAIN wPending
       THEN /\ wPending' = [wPending EXCEPT ![wNet.req_id].event = TRUE]
            /\ wNet' = [wNet EXCEPT !.pc = "idle"]
       ELSE /\ wNet' = WrapExcept(wNet, "KeyError")
            /\ UNCHANGED wPending
    /\ UNCHANGED <<regDir, wCall, ctlNet, connVars, fileVars, RPC_MAX_RETRIES, envCount, rpcVars,
                   bridgeVars, ctlVars>>

\* ------------------------------------------------------------ other remote clients
\* What another client of the remote broker (the sample CLIs) may publish: a
\* command for a device, or a response on a topic the controller waits on.
\* A second device, addressed by other clients of the remote broker.
OtherDevice == "espB"
RemoteEnvMessages ==
    { <<<<VM_BASE_PREFIX, d, "pump", "run">>, raw>> : d \in Devices,
        raw \in { NotJson, NonObject, JsonDumps([params |-> "{duration:7}"]),
                  JsonDumps([requestId |-> ForeignId]) } }
    \cup { <<<<VM_BASE_PREFIX, OtherDevice, "pump", "run">>,
              JsonDumps([requestId |-> ForeignId])>> }
    \cup { <<topic, JsonDumps([requestId |-> topic[5], result |-> "P2"])>> :
             topic \in CtlSubs }

EnvRemotePublish(topic, raw) ==
    /\ envCount < MaxBridgeMsgs
    /\ envCount' = envCount + 1
    /\ vmInbox' = VmQueued(vmInbox, topic, raw)
    /\ ctlInbox' = CtlQueued(ctlInbox, CtlSubs, topic, raw)
    /\ UNCHANGED <<regDir, raceVars, connVars, fileVars, RPC_MAX_RETRIES, rpcVars, registry, vmState, vmCmd, vmLog, cmdLog,
                   ctlPending, ctlUuid, http>>

\* ------------------------------------------------------------ broker sessions
\* The MQTT clients of the mediator: local_mqtt, vm_mqtt (build_client) and the
\* client of MqttRpcClient.
Clients == {"local", "vm", "rpc"}

\* The filters a client has passed to subscribe(): main lines 326-335 and
\* 345-349, and call line 150 for each attempt.
Subscribed(c) ==
    CASE c = "local" -> LocalSubscriptions
      [] c = "vm" -> VmSubscriptions
      [] OTHER -> rpcSubs
\* The filters the client's broker holds for its current session.
Active(c) == Subscribed(c) \ lostSubs[c]

\* The connection of a client drops.  Every client is created with
\* clean_session=True (line 207; the default at line 96), so the broker discards
\* the session and with it every subscription made so far.
Disconnect(c) ==
    /\ connected[c]
    /\ connected' = [connected EXCEPT ![c] = FALSE]
    /\ lostSubs' = [lostSubs EXCEPT ![c] = Subscribed(c)]
    /\ UNCHANGED <<regDir, raceVars, fileVars, RPC_MAX_RETRIES, envCount, rpcVars, bridgeVars, ctlVars>>

\* The network loop reconnects (loop_start, reconnect_delay_set).  The clients
\* of build_client have no on_connect callback and _on_connect of the RPC client
\* (lines 110-111) only logs: nothing subscribes again.
Reconnect(c) ==
    /\ ~connected[c]
    /\ connected' = [connected EXCEPT ![c] = TRUE]
    /\ UNCHANGED <<regDir, raceVars, lostSubs, fileVars, RPC_MAX_RETRIES, envCount, rpcVars, bridgeVars, ctlVars>>

\* An attempt of call made while the RPC client's session is up.
ConnAttempt(t) == connected["rpc"] /\ Attempt(t)

\* The local broker delivers a response to the RPC client: to a connected client,
\* on a filter its session holds.
ConnRpcMessage(topic, raw) ==
    /\ connected["rpc"]
    /\ topic \in Active("rpc")
    /\ RpcOnMessage(topic, raw)

\* The local broker delivers a device's message to local_mqtt.
ConnLocalMessage(topic, raw) ==
    /\ connected["local"]
    /\ Delivered(Active("local"), topic)
    /\ OnLocalMessage(topic, raw)

\* The remote broker queues a command for vm_mqtt.
ConnRemotePublish(topic, raw) ==
    /\ connected["vm"]
    /\ Delivered(Active("vm"), topic)
    /\ EnvRemotePublish(topic, raw)

\* ------------------------------------------------------------ specifications
InitRpcVars ==
    /\ pending = EmptyObj
    /\ rpcSubs = {}
    /\ uuidCount = [t \in Threads |-> 0]
    /\ frame = [t \in Threads |-> IdleFrame]
    /\ localLog = {}
    /\ handled = EmptyObj
    /\ inserted = EmptyObj
    /\ removed = EmptyObj
    /\ unblocked = {}

\* The clients and handlers of the mediator and the controller before any
\* message.
InitBridge ==
    /\ RPC_MAX_RETRIES \in RetryBounds
    /\ envCount = 0
    /\ InitRpcVars
    /\ tmpFile = NoFile
    /\ saver = [w \in Savers |-> IdleSaver]
    /\ vmInbox = <<>>
    /\ vmState = "idle"
    /\ vmCmd = IdleCmd
    /\ vmLog = EmptyObj
    /\ cmdLog = <<>>
    /\ ctlPending = EmptyObj
    /\ ctlUuid = 0
    /\ ctlInbox = <<>>
    /\ ctlNet = IdleNet
    /\ wPending = EmptyObj
    /\ wCall = IdleWrapCall
    /\ wNet = IdleWrapNet
    /\ connected = [c \in Clients |-> TRUE]
    /\ lostSubs = [c \in Clients |-> {}]

\* The mediator after main has loaded the registry and built its clients.
InitMediator ==
    /\ InitBridge
    /\ regDir = "ok"
    /\ diskFile = NoFile
    /\ registry = LoadRegistry(diskFile)
    /\ proc = "running"

\* The mediator as main begins, line 45: the registry is {} and whatever is at
\* REGISTRY_PATH has not been read.
InitStart ==
    /\ InitBridge
    /\ http = [h \in Requests |-> IdleHttp]
    /\ regDir \in RegDirs
    /\ diskFile \in StartFiles
    /\ registry = EmptyObj
    /\ proc = "starting"

Init ==
    /\ InitMediator
    /\ http = [h \in Requests |-> IdleHttp]

\* The controller alone, with two HTTP requests that may overlap.
InitCtl ==
    /\ InitMediator
    /\ http = [h \in CtlRequests |-> IdleHttp]

\* The RPC client under concurrent direct callers and answering devices.
NextRpc ==
    \/ \E t \in Callers, d \in Devices, a \in CallArgs : CallEnter(t, d, a[1], a[2])
    \/ \E t \in Callers : Attempt(t)
    \/ \E t \in Callers : WaitSignalled(t)
    \/ \E t \in Callers : WaitTimeout(t)
    \/ \E t \in Callers : Finally(t)
    \/ \E topic \in AnswerableTopics : \E raw \in DevicePayloads(topic[4]) :
          RpcOnMessage(topic, raw)

SpecRpc == Init /\ [][NextRpc]_vars

\* The registry and its file under announces and a termination signal.
NextReg ==
    \/ \E raw \in RegAnnouncePayloads : AnnounceBegin(raw)
    \/ \E w \in Savers : SaveOpen(w)
    \/ \E w \in Savers : SaveWrite(w)
    \/ \E w \in Savers : SaveReplace(w)
    \/ AnnounceForward
    \/ Signal
    \/ SigExit
    \/ LoadOnStart

SpecReg == Init /\ [][NextReg]_vars

\* The controller with its HTTP clients and the answers published upstream.
NextCtl ==
    \/ \E h \in CtlRequests, route \in AllRoutes : CtlCall(h, route)
    \/ CtlOnMessage
    \/ \E h \in CtlRequests : CtlReturn(h)
    \/ \E h \in CtlRequests : CtlTimeout(h)
    \/ \E h \in CtlRequests : CtlAbort(h)
    \/ \E topic \in CtlSubs : \E raw \in CtlAnswers(topic) : UpstreamAnswer(topic, raw)

SpecCtl == InitCtl /\ [][NextCtl]_vars

\* The controller with the event loop thread running between the statements of
\* _on_message on the network thread.
NextCtlRace ==
    \/ \E h \in CtlRequests, route \in AllRoutes : CtlCall(h, route)
    \/ CtlMsgCheck
    \/ CtlMsgPop
    \/ CtlMsgDone
    \/ CtlMsgSet
    \/ \E h \in CtlRequests : CtlReturn(h)
    \/ \E h \in CtlRequests : CtlTimeout(h)
    \/ \E h \in CtlRequests : CtlAbort(h)
    \/ \E topic \in CtlSubs : \E raw \in CtlAnswers(topic) : UpstreamAnswer(topic, raw)

SpecCtlRace == InitCtl /\ [][NextCtlRace]_vars

\* The start of the mediator and the announces after it, with saves that fail.
NextStart ==
    \/ MainLoad
    \/ \E raw \in RegAnnouncePayloads : AnnounceBegin(raw)
    \/ \E w \in Savers : SaveOpen(w)
    \/ \E w \in Savers : SaveWrite(w)
    \/ \E w \in Savers : SaveReplace(w)
    \/ \E w \in Savers : SaveFail(w)
    \/ AnnounceForward

SpecStart == InitStart /\ [][NextStart]_vars

\* on_local_message alone, under every kind of local message.
NextLocal == \E m \in LocalMessages : LocalPublish(m[1], m[2])

SpecLocal == Init /\ [][NextLocal]_vars

\* The client of rpc_wrapper.py: one caller and the network thread.
NextWrap ==
    \/ \E d \in Devices, m \in {"bucket", "pump"} : WrapCall(d, m)
    \/ WrapWaitTrue
    \/ WrapWaitFalse
    \/ WrapReturn
    \/ WrapRaise
    \/ \E raw \in WrapAnswers : WrapMsgBegin(raw)
    \/ WrapMsgStore
    \/ WrapMsgSet

SpecWrap == Init /\ [][NextWrap]_vars

\* The mediator's clients under connection loss, with one caller of the RPC client.
NextConn ==
    \/ \E c \in Clients : Disconnect(c)
    \/ \E c \in Clients : Reconnect(c)
    \/ \E d \in Devices, a \in CallArgs : CallEnter("t1", d, a[1], a[2])
    \/ ConnAttempt("t1")
    \/ WaitSignalled("t1")
    \/ WaitTimeout("t1")
    \/ Finally("t1")
    \/ \E topic \in AnswerableTopics : \E raw \in DevicePayloads(topic[4]) :
          ConnRpcMessage(topic, raw)
    \/ \E m \in LocalEnvMessages : ConnLocalMessage(m[1], m[2])
    \/ \E m \in RemoteEnvMessages : ConnRemotePublish(m[1], m[2])

SpecConn == Init /\ [][NextConn]_vars

\* The mediator between its two brokers, with the controller upstream.
Next ==
    \/ \E h \in Requests, route \in Routes : CtlCall(h, route)
    \/ CtlOnMessage
    \/ \E h \in Requests : CtlReturn(h)
    \/ \E h \in Requests : CtlTimeout(h)
    \/ \E m \in RemoteEnvMessages : EnvRemotePublish(m[1], m[2])
    \/ OnVmMessage
    \/ Attempt(VmThread)
    \/ WaitSignalled(VmThread)
    \/ WaitTimeout(VmThread)
    \/ Finally(VmThread)
    \/ VmRespond
    \/ \E topic \in AnswerableTopics : \E raw \in EnvPayloads(topic[4]) :
          RpcOnMessage(topic, raw)
    \/ \E m \in LocalEnvMessages : OnLocalMessage(m[1], m[2])

Spec == Init /\ [][Next]_vars

\* ============================================================ properties of the RPC client
\* The entries _on_message recorded for a request id.
HandledFor(id) == Get(handled, id, <<>>)
\* The request ids a finished or running call generated, as a set.
IdsOf(f) == { f.ids[i] : i \in 1..Len(f.ids) }
\* The requests the RPC client published under one of these ids.
PublishedFor(ids) == { msg \in localLog : RequestIdOf(msg) \in ids }

\* C1: when exactly one envelope {requestId: <id of a request of the call>,
\* result: P} reaches the client while the call waits on that id, call returns P.
C1_ReturnsResult ==
    \A t \in Threads : frame[t].pc = "done" =>
        \A id \in IdsOf(frame[t]) :
            LET h == HandledFor(id)
            IN  (Len(h) = 1 /\ h[1].waiting /\ DOMAIN h[1].payload = {"requestId", "result"})
                => /\ frame[t].outcome = "return"
                   /\ frame[t].retval = h[1].payload["result"]

\* A call that timed out once and then returned the result of its second request.
C1_Witness ==
    \E t \in Callers :
        /\ frame[t].pc = "done" /\ frame[t].outcome = "return"
        /\ frame[t].attempt = 2 /\ frame[t].retval = "P2"
        /\ Len(HandledFor(frame[t].req_id)) = 1

\* C5: against a responder that never replies, call publishes exactly
\* RPC_MAX_RETRIES requests under pairwise distinct fresh ids and then fails with
\* a Timeout error.
C5_RetriesThenTimeout ==
    \A t \in Threads :
        (frame[t].pc = "done" /\ envCount = 0 /\ ~DumpsRaises(frame[t].params)) =>
            /\ Cardinality(PublishedFor(IdsOf(frame[t]))) = RPC_MAX_RETRIES.val
            /\ Cardinality(IdsOf(frame[t])) = RPC_MAX_RETRIES.val
            /\ frame[t].outcome = "raise"
            /\ frame[t].raised.exc = "TimeoutError"

\* C6: once call has returned or raised, none of the ids it generated is in
\* pending; every entry of pending is the current id of a call still running.
C6_NoEntryOutlivesCall ==
    /\ \A t \in Threads : frame[t].pc \in {"idle", "done"} =>
          IdsOf(frame[t]) \cap DOMAIN pending = {}
    /\ \A id \in DOMAIN pending :
          \E t \in Threads : frame[t].pc \in {"wait", "finally"} /\ frame[t].req_id = id

\* One call ended by exhausting its retries, another by a non-timeout error.
C6_Witness ==
    \E t, u \in Callers :
        /\ frame[t].pc = "done" /\ frame[t].raised.exc = "TimeoutError"
        /\ Len(frame[t].ids) = 2
        /\ frame[u].pc = "done" /\ frame[u].exit = "break" /\ Len(frame[u].ids) = 1

\* C7: under concurrent calls every request id is inserted into pending by exactly
\* one attempt and removed from it exactly once.
C7_InsertedOnceRemovedOnce ==
    /\ \A id \in DOMAIN inserted : inserted[id] = 1
    /\ \A id \in DOMAIN removed : removed[id] = 1
    /\ \A id \in DOMAIN inserted : (id \in DOMAIN pending) <=> (id \notin DOMAIN removed)
    /\ \A t, u \in Threads : t # u => IdsOf(frame[t]) \cap IdsOf(frame[u]) = {}
    /\ \A t \in Threads : Cardinality(IdsOf(frame[t])) = Len(frame[t].ids)

\* Two calls wait at the same time, each on its own id, after an earlier id of
\* one of them was removed.
C7_Witness ==
    /\ frame["t1"].pc = "wait" /\ frame["t2"].pc = "wait"
    /\ frame["t1"].req_id # frame["t2"].req_id
    /\ removed # EmptyObj

\* The stored responses among the messages handled for an id.
StoredFor(id) == { i \in 1..Len(HandledFor(id)) : HandledFor(id)[i].stored }
\* The call that generated the id has ended.
CreatorDone(id) == \E t \in Threads : id \in IdsOf(frame[t]) /\ frame[t].pc = "done"

C12_OnePlusRetriesWaits ==
    \A t \in Threads :
        (frame[t].pc = "done" /\ envCount = 0 /\ ~DumpsRaises(frame[t].params)) =>
            /\ frame[t].waits = 1 + RPC_MAX_RETRIES.val
            /\ frame[t].outcome = "raise"
            /\ frame[t].raised.exc = "TimeoutError"

\* ============================================================ properties of the bridge
\* The commands on_vm_message has finished handling.
Commands == { cmdLog[i] : i \in 1..Len(cmdLog) }
\* Line 301: req_id or 'noid'
IdOrNoid(req_id) == IF req_id \in {"", None} THEN "noid" ELSE req_id
\* A topic of the shape <cloudPrefix>/<deviceId>/<base>/response/<id>.
IsCmdResponseTopic(topic) ==
    Len(topic) = 5 /\ topic[1] = VM_BASE_PREFIX /\ topic[4] = "response"
\* The device answered the request with this id once, in time, with a result.
RepliedResult(id) ==
    /\ Len(HandledFor(id)) = 1 /\ HandledFor(id)[1].waiting
    /\ DOMAIN HandledFor(id)[1].payload = {"requestId", "result"}

\* C2: for a pump/run command with id R the mediator publishes the local request
\* under a new id R' # R, and when the device replies with result P it publishes
\* {requestId: R, result: P} on devices/<D>/pump/response/<R>, which completes
\* the controller's call with P.
C2_PumpRunEndToEnd ==
    \A c \in Commands :
        (c.kind = "answered" /\ SubSeq(c.topic, 3, 4) = <<"pump", "run">> /\ c.req_id # "") =>
            /\ Len(c.ids) >= 1
            /\ \A i \in 1..Len(c.ids) : c.ids[i] # c.req_id
            /\ \E msg \in localLog : /\ msg.topic = <<c.topic[2], "pump", "run">>
                                     /\ RequestIdOf(msg) = c.ids[Len(c.ids)]
            /\ RepliedResult(c.ids[Len(c.ids)]) =>
                  LET P == HandledFor(c.ids[Len(c.ids)])[1].payload["result"]
                  IN  /\ c.resp = [requestId |-> c.req_id, result |-> P]
                      /\ [topic |-> <<"devices", c.topic[2], "pump", "response", c.req_id>>,
                          payload |-> JsonDumps(c.resp), by |-> "vm"] \in DOMAIN vmLog
                      /\ \A h \in Requests :
                            (http[h].pc = "done" /\ http[h].response = c.resp)
                            => http[h].status = 200 /\ http[h].result = P

\* C3 as stated: every upstream message on <cloudPrefix>/<deviceId>/<base>/
\* response/<id> carries, in topic and envelope, the id of a remote command
\* ("noid" in the topic for a command without id); no local id appears upstream.
C3_OnlyCommandIdsUpstream ==
    \A msg \in DOMAIN vmLog : IsCmdResponseTopic(msg.topic) =>
        /\ \E c \in Commands :
              /\ msg.topic[5] = IdOrNoid(c.req_id)
              /\ IsObject(msg.payload)
              /\ Get(JsonLoads(msg.payload), "requestId", None) = c.req_id
        /\ msg.topic[5] \notin DOMAIN inserted

\* C3: every message on_vm_message publishes upstream answers a command it
\* handled: the envelope carries that command's requestId and the topic is
\* <cloudPrefix>/<deviceId>/<base>/response/<that id, or "noid" if empty>; every
\* other upstream message is a forward by on_local_message.
C3_VmAnswersCarryCommandId ==
    \A msg \in DOMAIN vmLog :
        \/ msg.by = "local"
        \/ \E c \in Commands :
              /\ c.kind = "answered"
              /\ msg.topic = <<VM_BASE_PREFIX, c.topic[2], c.topic[3], "response",
                               IdOrNoid(c.req_id)>>
              /\ JsonLoads(msg.payload)["requestId"] = c.req_id

\* The answer to a controller command went upstream under the controller's id
\* and a local response went upstream under its local id.
C3_Witness ==
    /\ \E msg \in DOMAIN vmLog : /\ msg.by = "vm" /\ msg.topic[5] = CtlUuid(1)
                                 /\ JsonLoads(msg.payload)["requestId"] = CtlUuid(1)
    /\ \E msg \in DOMAIN vmLog : /\ msg.by = "local" /\ IsCmdResponseTopic(msg.topic)
                                 /\ msg.topic[5] \notin { c.req_id : c \in Commands }

\* The number of messages on_vm_message has published upstream.
RECURSIVE BagSize(_, _)
BagSize(bag, keys) ==
    IF keys = {} THEN 0
    ELSE LET k == CHOOSE x \in keys : TRUE IN bag[k] + BagSize(bag, keys \ {k})
VmPublished == BagSize(vmLog, { msg \in DOMAIN vmLog : msg.by = "vm" })

\* C4: every remote command whose payload parses as JSON is answered with
\* exactly one upstream publish, {requestId, result} or {requestId, error}.
C4_ExactlyOneResponse ==
    /\ \A c \in Commands : c.kind # "nonjson" =>
          /\ c.kind \in {"answered", "registry"}
          /\ c.kind = "answered" =>
                DOMAIN c.resp \in {{"requestId", "result"}, {"requestId", "error"}}
    /\ VmPublished = Cardinality({ i \in 1..Len(cmdLog) : cmdLog[i].kind # "nonjson" })

\* A step of the RPC client's _on_message for a message naming req_id.
RpcHandles(req_id) ==
    /\ envCount' = envCount + 1
    /\ Len(Get(handled', req_id, <<>>)) = Len(HandledFor(req_id)) + 1
\* A step of the controller's _on_message.
CtlHandles == ctlInbox # <<>> /\ ctlInbox' = Tail(ctlInbox)

\* C9: a response whose requestId is not in the pending table (unknown, late, of
\* an earlier attempt) leaves the table unchanged and unblocks no waiter, in the
\* mediator's RPC client and in the controller's.
C9_UnknownResponseDropped ==
    [][ /\ \A req_id \in DOMAIN handled' :
              (RpcHandles(req_id) /\ req_id \notin DOMAIN pending)
              => pending' = pending /\ frame' = frame /\ unblocked' = unblocked
        /\ (CtlHandles /\ ~(/\ IsObject(Head(ctlInbox).payload)
                            /\ Get(JsonLoads(Head(ctlInbox).payload), "requestId", None)
                                   \in DOMAIN ctlPending))
              => ctlPending' = ctlPending /\ http' = http ]_vars

\* The RPC client handled a late response to a request it had given up, and the
\* controller took the mediator's answer off its queue after its call timed out.
C9_Witness ==
    /\ \E id \in DOMAIN inserted :
          \E i \in 1..Len(HandledFor(id)) : ~HandledFor(id)[i].stored
    /\ \E h \in Requests :
          /\ http[h].pc = "done" /\ http[h].status = 504 /\ ctlInbox = <<>>
          /\ \E msg \in DOMAIN vmLog :
                msg.topic = CtlResponseTopic(http[h].device_id, http[h].method,
                                             http[h].req_id)

\* ============================================================ properties of the registry
\* The announces forwarded upstream so far, and whether one is being handled.
AnnouncesForwarded ==
    BagSize(vmLog, { msg \in DOMAIN vmLog : msg.topic = <<"devices", "announce">> })
AnnounceInProgress == IF saver["announce"].pc = "idle" THEN 0 ELSE 1

\* C16: an announce whose payload is a JSON object A with id D makes the registry
\* map D to A, every other entry unchanged, and triggers a save; the handler then
\* publishes the raw payload upstream on devices/announce, once per announce.
C16_AnnounceUpserts ==
    [][ /\ \A raw \in RegAnnouncePayloads :
              (raw.json = "obj" /\ "id" \in DOMAIN raw.obj /\ AnnounceBegin(raw)) =>
                  /\ registry' = [k \in DOMAIN registry \cup {raw.obj["id"]} |->
                                    IF k = raw.obj["id"] THEN raw.obj ELSE registry[k]]
                  /\ saver'["announce"].pc = "open"
        /\ AnnounceForward =>
              vmLog' = BagAdd(vmLog, [topic |-> <<"devices", "announce">>,
                                      payload |-> saver["announce"].raw, by |-> "local"])
        /\ AnnouncesForwarded' = envCount' - AnnounceInProgress' ]_vars

\* A second announcement of espD replaced the first, both went upstream, and the
\* file holds the registry.
C16_Witness ==
    /\ "espD" \in DOMAIN registry /\ registry["espD"]["fw"] = "1.0"
    /\ AnnouncesForwarded = 2
    /\ \E msg \in DOMAIN vmLog : msg.payload = JsonDumps([id |-> "espD", fw |-> "0.9"])
    /\ LoadRegistry(diskFile) = registry

\* C18: after the registry was upserted and save_registry succeeded, a fresh
\* load_registry (the next start of the mediator) yields a registry holding every
\* entry that was in memory when the save began.
C18_RoundTrip ==
    (proc = "reloaded" /\ saver["signal"].pc = "saved") =>
        \A D \in DOMAIN saver["signal"].reg :
            D \in DOMAIN registry /\ registry[D] = saver["signal"].reg[D]

\* C19: the file at REGISTRY_PATH is at every instant absent, empty or one
\* complete well-formed JSON document, also when the announce handler and the
\* signal handler run save_registry at the same time.
C19_FileNeverPartial ==
    \/ ~diskFile.exists
    \/ diskFile.data = <<>>
    \/ ~JsonLoadRaises(diskFile.data)

\* ============================================================ properties of the handlers
\* A step of on_vm_message taking the message at the head of its queue.
VmHandles == vmState = "idle" /\ vmInbox # <<>> /\ vmInbox' = Tail(vmInbox)

\* C13: a remote command whose payload is not JSON produces no upstream publish
\* and no local publish and creates no pending waiter, and on_vm_message remains
\* ready for the commands delivered after it.
C13_NonJsonCommandIgnored ==
    [][ (VmHandles /\ Head(vmInbox).payload = NotJson) =>
            /\ vmLog' = vmLog /\ ctlInbox' = ctlInbox
            /\ localLog' = localLog
            /\ pending' = pending /\ inserted' = inserted /\ frame' = frame
            /\ vmState' = "idle" ]_vars

\* A command was answered after a non-JSON command had been dropped.
C13_Witness ==
    \E i, j \in 1..Len(cmdLog) :
        i < j /\ cmdLog[i].kind = "nonjson" /\ cmdLog[j].kind = "answered"

\* C14: whatever the payload, non-JSON bytes or JSON that is no object, no handler
\* of the mediator lets an exception escape to the thread delivering the message.
C14_NoExceptionEscapes ==
    /\ vmState # "dead"
    /\ \A c \in Commands : c.kind # "escaped"

\* C15: a devices/get request published on <cloudPrefix>/mediator/devices/get is
\* covered by one of the mediator's remote subscriptions, hence delivered to it.
C15_DevicesGetDelivered ==
    \A h \in Requests :
        (http[h].pc # "idle" /\ http[h].method = <<"devices", "get">>) =>
            Delivered(VmSubscriptions, <<VM_BASE_PREFIX, http[h].device_id>> \o http[h].method)

\* C17: a local message on <deviceId>/bucket|pump|wifi/status goes upstream once,
\* same payload, same topic without prefix; handling it changes neither the
\* registry (nor its file) nor the pending table.
C17_StatusForwardedUnchanged ==
    [][ \A m \in LocalEnvMessages :
            (/\ Len(m[1]) = 3 /\ m[1][3] = "status" /\ m[1][2] \in {"bucket", "pump", "wifi"}
             /\ OnLocalMessage(m[1], m[2])) =>
                /\ vmLog' = BagAdd(vmLog, [topic |-> m[1], payload |-> m[2], by |-> "local"])
                /\ registry' = registry /\ diskFile' = diskFile
                /\ pending' = pending ]_vars

\* A bucket status went upstream once under its local topic.
C17_Witness ==
    \E msg \in DOMAIN vmLog :
        /\ msg.topic = <<"espA", "bucket", "status">> /\ msg.by = "local"
        /\ msg.payload \in StatusPayloads /\ vmLog[msg] = 1

\* C20: when the envelope completing a controller call carries an error field, the
\* HTTP response is 502, never 200.
C20_ErrorEnvelopeIs502 ==
    \A h \in Requests :
        (http[h].pc = "done" /\ "error" \in DOMAIN http[h].response) => http[h].status = 502

\* ============================================================ properties of shutdown and announces
\* C29: after the signal handler has saved and the process has exited, every
\* device that was in the registry when the signal arrived is in the registry
\* file, also when the announce handler was saving at that moment.
C29_SignalSavesRegistry ==
    proc = "exited" =>
        \A D \in saver["signal"].known : D \in DOMAIN LoadRegistry(diskFile)

\* C30: an announce whose payload is not JSON is dropped: nothing is published
\* upstream for it.
C30_NonJsonAnnounceDropped ==
    \A msg \in DOMAIN vmLog :
        msg.topic = <<"devices", "announce">> => msg.payload # NotJson

\* ============================================================ properties of the command path
\* C25: a remote command without requestId (or with an empty one) is answered on
\* <cloudPrefix>/<deviceId>/<base>/response/noid with an envelope whose requestId
\* is "noid": the id in the topic and the id in the envelope agree.
C25_NoidInTopicAndEnvelope ==
    \A c \in Commands :
        (c.kind = "answered" /\ c.req_id \in {"", None}) =>
            \E msg \in DOMAIN vmLog :
                /\ msg.topic = <<VM_BASE_PREFIX, c.topic[2], c.topic[3], "response", "noid">>
                /\ Get(JsonLoads(msg.payload), "requestId", None) = "noid"

\* C26: with the default configuration RPC_MAX_RETRIES is an integer and call
\* makes attempts: it does not end before its first publish.
C26_DefaultConfigAttempts ==
    \A t \in Threads :
        (frame[t].pc = "done" /\ RPC_MAX_RETRIES = EnvRetries) =>
            /\ RPC_MAX_RETRIES.type = "int"
            /\ Len(frame[t].ids) >= 1

C27_DeliveryNotStalled ==
    (/\ vmState = "busy" /\ vmInbox # <<>>
     /\ Head(vmInbox).topic[2] # vmCmd.device_id) => ENABLED OnVmMessage

\* ============================================================ properties of the controller
\* The controller's _on_message takes a message naming the id of request h.
CtlHandlesFor(h) ==
    /\ CtlHandles /\ ctlNet.pc = "idle"
    /\ IsObject(Head(ctlInbox).payload)
    /\ Get(JsonLoads(Head(ctlInbox).payload), "requestId", None) = http[h].req_id

\* C22: when the wait of a call ends with no response for its id, the id leaves
\* the pending table and the request completes with 504; a response for that id
\* handled afterwards changes nothing, and every call that completes is
\* completed by a response carrying its own id.
C22_TimeoutPops504 ==
    [][ \A h \in DOMAIN http :
          /\ (http[h].pc = "await" /\ http[h].fut = "pending" /\ http'[h].pc = "done") =>
                /\ http'[h].status = 504
                /\ http[h].req_id \notin DOMAIN ctlPending'
          /\ (http[h].status = 504 /\ CtlHandlesFor(h)) =>
                ctlPending' = ctlPending /\ http' = http
          /\ http'[h].fut = "done" =>
                Get(http'[h].response, "requestId", None) = http'[h].req_id ]_vars

\* One request timed out and the response for it was handled afterwards, while
\* the other request was completed by its own response.
C22_Witness ==
    \E h, g \in DOMAIN http :
        /\ http[h].status = 504 /\ http[h].response = EmptyObj
        /\ h # g /\ http[g].status = 200 /\ http[g].result = "P1"
        /\ ctlInbox = <<>>
        /\ \E msg \in DOMAIN vmLog :
              /\ msg.topic = CtlResponseTopic(http[h].device_id, http[h].method, http[h].req_id)
              /\ Get(JsonLoads(msg.payload), "requestId", None) = http[h].req_id

\* C23: once the call of an aborted HTTP request has been cancelled, its request
\* id is no longer in the controller's pending table.
C23_AbortRemovesId ==
    \A h \in DOMAIN http :
        http[h].pc = "aborted" => http[h].req_id \notin DOMAIN ctlPending

\* What each route publishes: its method and its params.
RouteParams(method) == IF method = <<"pump", "run">> THEN "{duration:7}" ELSE "{}"

\* C24: each route issues exactly one publish, on devices/<id>/pump/run with
\* {duration: s}, devices/<id>/bucket/get, devices/<id>/wifi/get or
\* devices/mediator/devices/get with {}; a successful call yields 200 with body
\* {device, result} for the pump, {device, bucket} and {device, wifi} for the two
\* status routes, {devices} for the listing, each holding the result.
C24_RoutesCallOnce ==
    \A h \in DOMAIN http :
        http[h].pc # "idle" =>
            LET r == http[h] IN
            /\ r.method \in {<<"pump", "run">>, <<"bucket", "get">>, <<"wifi", "get">>,
                             <<"devices", "get">>}
            /\ r.method = <<"devices", "get">> <=> r.device_id = "mediator"
            /\ Len(r.published) = 1
            /\ r.published[1].topic = <<"devices", r.device_id>> \o r.method
            /\ JsonLoads(r.published[1].payload) =
                   [requestId |-> r.req_id, params |-> RouteParams(r.method)]
            /\ (r.pc = "done" /\ "result" \in DOMAIN r.response) =>
                  /\ r.status = 200
                  /\ r.body =
                       CASE r.method = <<"pump", "run">> ->
                              [device |-> r.device_id, result |-> r.response["result"]]
                         [] r.method = <<"bucket", "get">> ->
                              [device |-> r.device_id, bucket |-> r.response["result"]]
                         [] r.method = <<"wifi", "get">> ->
                              [device |-> r.device_id, wifi |-> r.response["result"]]
                         [] OTHER -> [devices |-> r.response["result"]]

\* A bucket status request and a listing both ended with 200 and their bodies.
C24_Witness ==
    \E h, g \in DOMAIN http :
        /\ http[h].status = 200 /\ http[h].body = [device |-> "espA", bucket |-> "P1"]
        /\ http[g].status = 200 /\ http[g].body = [devices |-> "P1"]

\* C24 as stated: a successful call yields 200 with body {device: <id>,
\* result: <result>}, or {devices: <result>} for the listing.
C24_BodyIsDeviceResult ==
    \A h \in DOMAIN http :
        (http[h].pc = "done" /\ "result" \in DOMAIN http[h].response) =>
            /\ http[h].status = 200
            /\ http[h].body =
                 IF http[h].method = <<"devices", "get">>
                 THEN [devices |-> http[h].response["result"]]
                 ELSE [device |-> http[h].device_id, result |-> http[h].response["result"]]

\* ============================================================ properties of the broker sessions
\* C28: once a client's session is established again after a loss, its broker
\* holds every filter the client had subscribed, the response topic of a call in
\* flight included, so the client receives on all of them again.
C28_ResubscribedAfterReconnect ==
    \A c \in Clients :
        connected[c] => \A f \in Subscribed(c) : f \in Active(c)

C33_CommandBecomesLocalRequest ==
    \A c \in Commands :
        c.kind = "answered" =>
            \E msg \in localLog :
                /\ msg.topic = SubSeq(c.topic, 2, Len(c.topic))
                /\ Get(JsonLoads(msg.payload), "params", None) = c.params

C37_TimeoutRaceOneOutcome ==
    /\ ctlNet.error = "none"
    /\ \A h \in CtlRequests :
          http[h].pc = "done" =>
              /\ http[h].status \in {200, 504}
              /\ http[h].req_id \notin DOMAIN ctlPending

\* C40: rpc_wrapper's call ends by returning the result of the response that
\* carries its request id or by raising TimeoutError, its id then absent from
\* pending, and no exception leaves _on_message.
C40_WrapCallOutcome ==
    /\ wNet.escaped = "none"
    /\ wCall.pc = "done" =>
          /\ wCall.req_id \notin DOMAIN wPending
          /\ \/ wCall.outcome = "raise" /\ wCall.exc = "TimeoutError"
             \/ /\ wCall.outcome = "return"
                /\ Len(wCall.resp) = 1
                /\ Get(wCall.resp[1], "requestId", None) = wCall.req_id
                /\ wCall.retval = Get(wCall.resp[1], "result", None)

\* A response tested as pending was stored after call had timed out and
\* deleted the id: the KeyError stayed inside _on_message and call raised
\* TimeoutError.
C40_Witness ==
    /\ wCall.pc = "done"
    /\ wCall.outcome = "raise"
    /\ "KeyError" \in wNet.caught

\* ==================================================================== properties of local messages
\* C32: a local message on <deviceId>/<base>/response/<requestId>, base one of
\* bucket, pump, wifi, config, goes upstream once with the same payload on the
\* same topic under the cloud prefix; a local message of no recognised shape is
\* not forwarded.
C32_ResponseForwardedPrefixed ==
    [][ \A m \in LocalMessages :
          LocalPublish(m[1], m[2]) =>
            LET topic == m[1]
                response == /\ Len(topic) = 4 /\ topic[3] = "response"
                            /\ topic[2] \in {"bucket", "pump", "wifi", "config"}
                status == /\ Len(topic) = 3 /\ topic[3] = "status"
                          /\ topic[2] \in {"bucket", "pump", "wifi"}
                announce == topic = <<"devices", "announce">>
            IN  /\ response =>
                      vmLog' = BagAdd(vmLog, [topic |-> <<"devices">> \o topic,
                                              payload |-> m[2], by |-> "local"])
                /\ ~(response \/ status \/ announce) => vmLog' = vmLog ]_vars

\* A config response and a response with an empty request id and a payload that
\* is no JSON both went upstream once under the prefix.
C32_Witness ==
    /\ \E msg \in DOMAIN vmLog :
          /\ msg.topic = <<"devices", "espA", "config", "response", ForeignId>>
          /\ vmLog[msg] = 1 /\ msg.by = "local"
    /\ \E msg \in DOMAIN vmLog :
          /\ msg.topic = <<"devices", "espA", "pump", "response", "">>
          /\ msg.payload = NotJson /\ vmLog[msg] = 1

\* C36: every key of the registry is a non-empty string and is the id of the
\* payload stored under it.
C36_KeysAreIdStrings ==
    \A k \in DOMAIN registry :
        /\ k # ""
        /\ k \notin JsonNumbers
        /\ Get(registry[k], "id", None) = k

\* C38: only an announce whose payload carries a truthy id changes the registry;
\* handling a status, a local RPC response, a remote command or a registry query
\* leaves it as it was, and handling an announce or a registry query leaves the
\* pending table of the RPC client as it was.
C38_OnlyAnnounceChangesRegistry ==
    [][ /\ registry' # registry =>
              \E raw \in AnnouncePayloads :
                  /\ IsObject(raw)
                  /\ Get(JsonLoads(raw), "id", None) \notin {None, "", "#0"}
                  /\ OnLocalMessage(<<"devices", "announce">>, raw)
        /\ (\E raw \in AnnouncePayloads : OnLocalMessage(<<"devices", "announce">>, raw)) =>
              pending' = pending
        /\ (OnVmMessage /\ Head(vmInbox).topic = <<VM_BASE_PREFIX, "mediator", "devices", "get">>) =>
              pending' = pending /\ registry' = registry ]_vars

\* A remote command was answered, its call having put an id in the pending
\* table and taken it out, and an announce then entered the registry.
C38_Witness ==
    /\ DOMAIN registry = {"espD"}
    /\ \E i \in DOMAIN cmdLog : cmdLog[i].kind = "answered" /\ cmdLog[i].ids # <<>>

\* ==================================================================== properties of the registry file
\* The file at REGISTRY_PATH is absent or is the text of one complete save.
WellFormed(file) == ~file.exists \/ file = SavedFile(LoadRegistry(file))

\* C34: load_registry does not raise, and a missing file, a file that is no
\* JSON and a JSON document that is no object each give an empty registry.
C34_LoadNeverRaises ==
    /\ proc # "crashed"
    /\ (proc = "running" /\ envCount = 0 /\ ~WellFormed(diskFile)) => registry = EmptyObj
    /\ (proc = "running" /\ envCount = 0 /\ ~diskFile.exists) => registry = EmptyObj

\* C35: when the save of an announce has failed, the registry holds the
\* announced entry and the file at REGISTRY_PATH is intact: absent or one
\* complete save.
C35_FailedSaveKeepsFile ==
    saver["announce"].pc = "failed" =>
        /\ DevId(saver["announce"].raw) \in DOMAIN registry
        /\ WellFormed(diskFile)

====
